---- MODULE Spec2Model ----
(***************************************************************************)
(* Gaze backend: the gaze estimator (gaze.py, gaze_optimized.py), the      *)
(* per-session calibration store (calibration.py), the HTTP endpoints      *)
(* (app.py), the /ws stream (ws.py), the per-session stream                *)
(* /gaze/ws/{session_id} (gaze_websocket_server.py) and the frame queue    *)
(* (queue_processor.py).                                                   *)
(*                                                                         *)
(* Numbers.  h, v, attention and every threshold are fixed-point integers  *)
(* in units of 1/400 (One = 1.0).  The frames that are enumerated give     *)
(* per-eye displacements that are multiples of 0.1, so every division the  *)
(* estimator makes is exact in this unit.  Time (time.time()) is an        *)
(* integer number of milliseconds.                                         *)
(***************************************************************************)
EXTENDS Integers, Sequences, FiniteSets, TLC

VARIABLES
    now,          \* time.time(), in ms
    store,        \* calibration._calibration_store
    lastSet,      \* history: per session, the set_calibration in force (its time, h, v)
    resp,         \* history: the last operation and what it returned to its caller
    ws_pc,        \* /ws: where each connection's stream_ws handler is
    ws_alive,     \* /ws: whether the client end of each connection is still there
    ws_active,    \* /ws: ws_manager.active_connections
    last_frame_time,  \* /ws: ws_manager.last_frame_time, in ms
    ws_log,       \* history: the connection of the last frame message, and of the last one processed
    gws_pc,       \* /gaze/ws: where each connection's gaze_websocket_endpoint is
    gws_sid,      \* /gaze/ws: the session_id in each connection's path
    gws_alive,    \* /gaze/ws: whether the client end of each connection is still there
    active_connections,   \* gaze_manager.active_connections
    gaze_cache,   \* gaze_manager.gaze_cache
    gws_frames,   \* /gaze/ws: how many frames process_gaze_frame has been given
    gws_out,      \* history: the last message sent on a /gaze/ws connection
    frame_queue,  \* frame_processor.frame_queue: the heap list of the PriorityQueue
    stats,        \* frame_processor.stats
    shutdown_event,   \* frame_processor.shutdown_event
    q_sub,        \* queue: where each thread calling submit_frame is, and its request
    q_worker,     \* queue: where the worker thread is, and the request it holds
    q_log,        \* history: how the submit_frame calls ended, what was dequeued
    ready,        \* app_lazy.py: ready
    loading,      \* app_lazy.py: loading
    modules,      \* app_lazy.py: gaze_module and calibration_module are not None
    websocket_sessions,   \* app_lazy.py: websocket_sessions (0: no entry)
    lazy_pc,      \* app_lazy.py: where the loader thread and each stream handler are
    face_mesh_instance,   \* gaze_optimized.py _face_mesh_instance (0: None, n: the n-th FaceMesh made)
    face_mesh_lock,       \* gaze_optimized.py _face_mesh_lock (0: free, t: held by thread t)
    mesh_pc,      \* get_face_mesh: where each calling thread is
    mesh_ret,     \* get_face_mesh: what each thread's last call returned (0: nothing yet)
    mesh_log      \* history: FaceMesh objects constructed, calls begun

calVars == <<now, store, lastSet, resp>>
wsVars == <<ws_pc, ws_alive, ws_active, last_frame_time, ws_log>>
gwsVars == <<gws_pc, gws_sid, gws_alive, active_connections, gaze_cache,
             gws_frames, gws_out>>
qVars == <<frame_queue, stats, shutdown_event, q_sub, q_worker, q_log>>
lazyVars == <<ready, loading, modules, websocket_sessions, lazy_pc>>
meshVars == <<face_mesh_instance, face_mesh_lock, mesh_pc, mesh_ret, mesh_log>>
nonCalVars == <<wsVars, gwsVars, qVars, lazyVars, meshVars>>
nonWsVars == <<gwsVars, qVars, lazyVars, meshVars>>
nonGwsVars == <<wsVars, qVars, lazyVars, meshVars>>
nonQVars == <<store, lastSet, resp, wsVars, gwsVars, lazyVars, meshVars>>
nonLazyVars == <<wsVars, gwsVars, qVars, meshVars>>
nonMeshVars == <<calVars, wsVars, gwsVars, qVars, lazyVars>>

vars == <<now, store, lastSet, resp, ws_pc, ws_alive, ws_active, last_frame_time,
          ws_log,
          gws_pc, gws_sid, gws_alive, active_connections, gaze_cache,
          gws_frames, gws_out,
          frame_queue, stats, shutdown_event, q_sub, q_worker, q_log,
          ready, loading, modules, websocket_sessions, lazy_pc,
          face_mesh_instance, face_mesh_lock, mesh_pc, mesh_ret, mesh_log>>

-----------------------------------------------------------------------------
(* Program constants, in 1/400 *)

One == 400
EstimatorClamp == 600
GazeLimit == 240
AttentionMin == 160
CalibClamp == 1200
FallbackGazeLimit == 800
FallbackAttentionMin == 20
SESSION_EXPIRY_HOURS == 24
max_fps == 15

(* gaze_websocket_server.py _analyze_focus: points of the focus score,     *)
(* the centre band (1/400), the history cap and the trend window           *)
FocusOnScreenPoints == 40
FocusAttentionWeight == 40
FocusCentreBonus == 20
FocusScoreMax == 100
CentreLimit == 120
HistoryCap == 30
TrendWindow == 5
DistractedBelow == 30
WaveringBelow == 60
FocusLossBelow == 20
focus_loss_timeout == 3000        \* ms
notification_cooldown == 10000    \* ms

(* gaze_roboflow.py RobustGazeDetector, in 1/400: the clamp, gaze_threshold *)
(* and attention_min, and the attention curve (1.0 up to 0.3 from the      *)
(* centre, then falling by 0.7 per unit up to 0.8, then from 0.65 by 0.5   *)
(* per unit); offsets are normalised by 0.2 of the image size              *)
RoboClamp == 1200
RoboGazeThreshold == 320
RoboAttentionMin == 120
RoboNear == 120
RoboMid == 320
RoboMidSlopeTenths == 7
RoboFarBase == 260
RoboFarSlopeTenths == 5
RoboNormTenths == 2

(* queue_processor.py: the configuration of frame_processor, the only      *)
(* FrameQueueProcessor the program makes, and the timeout of its put (ms)  *)
drop_old_frames == TRUE
max_frame_age_ms == 200
PutTimeoutMs == 100

ExpiryMs == SESSION_EXPIRY_HOURS * 3600 * 1000

(* ws.py min_interval = 1.0 / max_fps seconds: the least whole number of   *)
(* ms that is not below it                                                 *)
MinIntervalMs == (1000 + max_fps - 1) \div max_fps

(* Bounds *)

MaxCalTicks == 2
MaxWsConns == 1
MaxDebounceConns == 2
MaxShortTicks == 4
MaxLongTicks == 1
MaxGwsConns == 1
MaxGwsFrames == 2
MaxFocusConns == 2
MaxFocusFrames == 32
FreeFrames == 2
max_queue_size == 3       \* frame_processor has 20
MaxSubmitters == 2
MaxSubmits == 4
MaxQTicks == 3
MaxLazyConns == 1
MaxMeshCallers == 3
MaxMeshCalls == 4

WsConns == 1..MaxWsConns
DebounceConns == 1..MaxDebounceConns
LazyConns == 1..MaxLazyConns
MeshCallers == 1..MaxMeshCallers
GwsConns == 1..MaxGwsConns
FocusConns == 1..MaxFocusConns
Submitters == 1..MaxSubmitters

(* The arguments of the submit_frame calls: frame_data, session_id, priority *)
Submissions == { <<"jpeg1", "A", 0>>, <<"jpeg2", "A", 0>>, <<"jpeg1", "A", 1>> }

Sessions == {"A", "default"}
Labels == {"center", "left"}

Abs(x) == IF x < 0 THEN -x ELSE x
Min(a, b) == IF a <= b THEN a ELSE b
Max(a, b) == IF a >= b THEN a ELSE b
Clip(x, lo, hi) == Max(lo, Min(hi, x))

-----------------------------------------------------------------------------
(* Frames.  A frame is what the handler and the landmark provider see of   *)
(* it: its content type, whether it is empty, whether it decodes, whether  *)
(* a face is found, and for each eye the iris centre minus the eye centre  *)
(* (dcx, dcy, in pixels) and the eye's width and height in pixels.         *)

Eye(dcx, dcy, w, h) == [dcx |-> dcx, dcy |-> dcy, width |-> w, height |-> h]

EyeCentre == Eye(0, 0, 20, 20)

Frame(kind, l, r) == [kind |-> kind, left |-> l, right |-> r]

FrameCentre == Frame("face", EyeCentre, EyeCentre)                     \* h = 0, v = 0
FrameRight == Frame("face", Eye(3, 0, 20, 20), Eye(3, 0, 20, 20))      \* h = 0.3
FrameAside == Frame("face", Eye(8, 0, 20, 20), Eye(8, 0, 20, 20))      \* h = 0.8, attention 0.6
FrameWaver == Frame("face", Eye(6, 5, 20, 20), Eye(6, 5, 20, 20))      \* h = 0.6, v = 0.5, attention 0.45
FrameFar == Frame("face", Eye(20, 2, 20, 20), Eye(20, 2, 20, 20))      \* h = 2.0 -> 1.5, v = 0.2
FrameFarLeft == Frame("face", Eye(-20, 0, 20, 20), Eye(-20, 0, 20, 20)) \* h = -1.5
FrameCrossed == Frame("face", Eye(4, 0, 20, 20), Eye(-4, 0, 20, 20))   \* the eyes at +0.4 and -0.4
FrameOneEye == Frame("face", Eye(0, 0, 0, 20), EyeCentre)              \* an eye of no width, the other at the centre
FrameNoFace == Frame("noface", EyeCentre, EyeCentre)
FrameUndecodable == Frame("undecodable", EyeCentre, EyeCentre)
FrameEmpty == Frame("empty", EyeCentre, EyeCentre)
FrameNotImage == Frame("notimage", EyeCentre, EyeCentre)
FrameBadBase64 == Frame("badbase64", EyeCentre, EyeCentre)   \* a stream message's data that is not base64
FrameMissing == Frame("missing", EyeCentre, EyeCentre)       \* a stream message without data

-----------------------------------------------------------------------------
(* Readings: the dict an estimator returns.  error = "" when the dict has  *)
(* no "error" key; has_gaze says whether the gaze / attention / on_screen  *)
(* keys are there; thr says whether a "thresholds" key is there.           *)

Reading(h, v, att, on, ch, cv) ==
    [error |-> "", has_gaze |-> TRUE, h |-> h, v |-> v, attention |-> att,
     on_screen |-> on, cal_h |-> ch, cal_v |-> cv,
     thr |-> FALSE, gaze_limit |-> 0, attention_min |-> 0]

ErrorReading(e) ==
    [error |-> e, has_gaze |-> FALSE, h |-> 0, v |-> 0, attention |-> 0,
     on_screen |-> FALSE, cal_h |-> 0, cal_v |-> 0,
     thr |-> FALSE, gaze_limit |-> 0, attention_min |-> 0]

NoReading == ErrorReading("none")

(* gaze.py _eye_metrics: <<dx, dy, attention>> of one eye *)
EyeMetrics(eye) ==
    IF eye.width = 0 \/ eye.height = 0
    THEN <<0, 0, 0>>
    ELSE LET dx == (2 * One * eye.dcx) \div eye.width
             dy == (2 * One * eye.dcy) \div eye.height
         IN  <<dx, dy, One - Min(One, (Abs(dx) + Abs(dy)) \div 2)>>

(* gaze.py infer_gaze *)
InferGaze(frame) ==
    IF frame.kind = "noface" THEN ErrorReading("no_face")
    ELSE IF frame.kind # "face" THEN ErrorReading("processing_error")
    ELSE LET l == EyeMetrics(frame.left)
             r == EyeMetrics(frame.right)
             dx == Clip((l[1] + r[1]) \div 2, -EstimatorClamp, EstimatorClamp)
             dy == Clip((l[2] + r[2]) \div 2, -EstimatorClamp, EstimatorClamp)
             attention == (l[3] + r[3]) \div 2
             on_screen == Abs(dx) <= GazeLimit /\ Abs(dy) <= GazeLimit
                          /\ attention >= AttentionMin
         IN  Reading(dx, dy, attention, on_screen, 0, 0)

-----------------------------------------------------------------------------
(* Calibration store (calibration.py) *)

NoEntry == [present |-> FALSE, h |-> 0, v |-> 0, timestamp |-> 0]
Entry(h, v, t) == [present |-> TRUE, h |-> h, v |-> v, timestamp |-> t]

Expired(e, t) == e.present /\ t - e.timestamp > ExpiryMs

(* _cleanup_expired_sessions *)
CleanupExpired(st, t) ==
    [s \in Sessions |-> IF Expired(st[s], t) THEN NoEntry ELSE st[s]]

(* get_offsets: the pair returned, and the store left behind *)
GetOffsetsStoreTouch(st, t) ==
    [s \in Sessions |-> IF Expired(st[s], t) THEN NoEntry
                        ELSE IF st[s].present THEN [st[s] EXCEPT !.timestamp = t]
                        ELSE st[s]]

GetOffsetsStore(st, t) == CleanupExpired(st, t)

GetOffsets(st, t, s) ==
    LET c == CleanupExpired(st, t)
    IN  IF ~c[s].present THEN <<0, 0>> ELSE <<c[s].h, c[s].v>>

(* apply_offsets: the dict returned, and the store left behind *)
ApplyOffsetsStore(g, st, t) ==
    IF g.error # "" THEN st ELSE GetOffsetsStore(st, t)

ApplyOffsetsAdd(g, st, t, s) ==
    IF g.error # "" THEN g
    ELSE LET off == GetOffsets(st, t, s)
         IN  [g EXCEPT !.h = Clip(g.h + off[1], -CalibClamp, CalibClamp),
                       !.v = Clip(g.v + off[2], -CalibClamp, CalibClamp),
                       !.cal_h = off[1], !.cal_v = off[2]]

ApplyOffsets(g, st, t, s) ==
    IF g.error # "" THEN g
    ELSE LET off == GetOffsets(st, t, s)
             h == Clip(g.h - off[1], -CalibClamp, CalibClamp)
             v == Clip(g.v - off[2], -CalibClamp, CalibClamp)
             on == IF g.thr
                   THEN Abs(h) <= g.gaze_limit /\ Abs(v) <= g.gaze_limit
                        /\ g.attention >= g.attention_min
                   ELSE Abs(h) <= FallbackGazeLimit /\ Abs(v) <= FallbackGazeLimit
                        /\ g.attention >= FallbackAttentionMin
         IN  [g EXCEPT !.h = h, !.v = v, !.on_screen = on,
                       !.cal_h = off[1], !.cal_v = off[2]]

(* set_calibration: whether it raises ValueError, and the store left behind *)
SetCalibrationRaisesOnError(g, label) == g.error # ""

SetCalibrationRaises(g, label) == label # "center" \/ g.error # ""

SetCalibrationStoreMerge(st, t, s, g, label) ==
    LET c == CleanupExpired(st, t)
    IN  IF SetCalibrationRaises(g, label) THEN c
        ELSE [c EXCEPT ![s] = Entry(c[s].h + g.h, c[s].v + g.v, t)]

SetCalibrationStore(st, t, s, g, label) ==
    LET c == CleanupExpired(st, t)
    IN  IF SetCalibrationRaises(g, label) THEN c
        ELSE [c EXCEPT ![s] = Entry(g.h, g.v, t)]

(* clear_session: the store left behind (no cleanup first) *)
ClearSessionStoreAll(st, s) == [x \in Sessions |-> NoEntry]

ClearSessionStore(st, s) == [st EXCEPT ![s] = NoEntry]

(* clear_all_sessions *)
ClearAllStore(st) == [s \in Sessions |-> NoEntry]

-----------------------------------------------------------------------------
(* gaze_websocket_server.py GazeSession; last_notification_time is the     *)
(* attribute _analyze_focus adds, read with getattr(..., 0) until then     *)
NoSession ==
    [present |-> FALSE, websocket |-> 0, start_time |-> 0, last_gaze_time |-> 0,
     attention_history |-> <<>>, focus_loss_count |-> 0, is_active |-> FALSE,
     last_notification_time |-> 0]

GazeSession(w, t) ==
    [present |-> TRUE, websocket |-> w, start_time |-> t, last_gaze_time |-> t,
     attention_history |-> <<>>, focus_loss_count |-> 0, is_active |-> TRUE,
     last_notification_time |-> 0]

NoCached == [present |-> FALSE, timestamp |-> 0, gaze |-> NoReading]

(* The focus_analysis dict of a message (attention_trend and               *)
(* time_since_last_gaze are not carried)                                   *)
NoFocus ==
    [status |-> "none", focus_score |-> 0, focus_loss_detected |-> FALSE,
     focus_loss_count |-> 0, attention_history_length |-> 0]

(* A message sent on a /gaze/ws connection: its type, the connection it    *)
(* went to, its focus_analysis, and whether a focus_alert followed it      *)
GwsOut(type, to, sid, focus, alert) ==
    [type |-> type, to |-> to, session_id |-> sid, focus_analysis |-> focus,
     alert |-> alert]

NoGwsOut == GwsOut("none", 0, "A", NoFocus, FALSE)

(* queue_processor.py FrameRequest and the tuple (-priority, timestamp,    *)
(* request) that is queued for it (late, which no comparison reads, notes  *)
(* that the submit_frame call came after an exception in the worker loop)  *)
FrameRequest(frame_data, sid, t, priority) ==
    [id |-> <<sid, t>>, frame_data |-> frame_data, session_id |-> sid,
     timestamp |-> t, priority |-> priority]

Item(request) ==
    [neg_priority |-> -request.priority, timestamp |-> request.timestamp,
     request |-> request, late |-> FALSE]

NoItem == Item(FrameRequest("jpeg1", "A", 0, 0))

(* How many tuples the worker has dequeued, by age at the dequeue (old:    *)
(* above max_frame_age_ms) and by what it did next (counted as expired,    *)
(* or handed to _process_frame)                                            *)
NoneDequeued ==
    [old_expired |-> 0, old_handed |-> 0, young_expired |-> 0, young_handed |-> 0]

-----------------------------------------------------------------------------
(* What an operation returned.  status: the HTTP status, or for a direct   *)
(* call of the store 0 (returned) / -1 (raised ValueError).                *)

(* at: the time of the call; prev: for set_calibration and clear_session,  *)
(* the session's entry before the call.                                    *)
Resp(op, s, status, raw, out, off, flag) ==
    [op |-> op, sid |-> s, status |-> status, raw |-> raw, out |-> out,
     off |-> off, flag |-> flag, at |-> now,
     prev |-> IF op \in {"set_calibration", "clear_session"} THEN store[s] ELSE NoEntry]

(* The set_calibration in force for a session: none, or the time and the   *)
(* offsets of the last successful call that no clear_* call followed.      *)
NoSet == [at |-> -1, h |-> 0, v |-> 0]
SetAt(t, g) == [at |-> t, h |-> g.h, v |-> g.v]

Detail(msg) == ErrorReading(msg)     \* an HTTPException body {"detail": msg}

(* time.time() is far from 0.0 when the process starts *)
StartTime == ExpiryMs

Init ==
    /\ now = StartTime
    /\ store = [s \in Sessions |-> NoEntry]
    /\ lastSet = [s \in Sessions |-> NoSet]
    /\ resp = Resp("init", "A", 0, NoReading, NoReading, <<0, 0>>, FALSE)
    /\ ws_pc = [c \in WsConns \cup DebounceConns |-> "idle"]
    /\ ws_alive = [c \in WsConns \cup DebounceConns |-> FALSE]
    /\ ws_active = <<>>
    /\ last_frame_time = 0
    /\ ws_log = [frame_from |-> 0, processed_from |-> 0]
    /\ gws_pc = [c \in GwsConns \cup FocusConns |-> "idle"]
    /\ gws_sid = [c \in GwsConns \cup FocusConns |-> "A"]
    /\ gws_alive = [c \in GwsConns \cup FocusConns |-> FALSE]
    /\ active_connections = [s \in Sessions |-> NoSession]
    /\ gaze_cache = [s \in Sessions |-> NoCached]
    /\ gws_frames = 0
    /\ gws_out = NoGwsOut
    /\ frame_queue = <<>>
    /\ stats = [frames_received |-> 0, frames_processed |-> 0,
                frames_dropped |-> 0, frames_expired |-> 0]
    /\ shutdown_event = FALSE
    /\ q_sub = [t \in Submitters |-> [pc |-> "idle", item |-> NoItem, since |-> 0]]
    /\ q_worker = [pc |-> "check", item |-> NoItem]
    /\ q_log = [calls |-> 0, accepted |-> 0, rejected |-> 0, raised |-> 0,
                lost |-> 0, late_lost |-> 0, dequeued |-> NoneDequeued]
    /\ ready = FALSE
    /\ loading = FALSE
    /\ modules = FALSE
    /\ websocket_sessions = [s \in Sessions |-> 0]
    /\ lazy_pc = [loader |-> "starting", ws |-> [c \in LazyConns |-> "idle"]]
    /\ face_mesh_instance = 0
    /\ face_mesh_lock = 0
    /\ mesh_pc = [t \in MeshCallers |-> "idle"]
    /\ mesh_ret = [t \in MeshCallers |-> 0]
    /\ mesh_log = [built |-> 0, calls |-> 0]

-----------------------------------------------------------------------------
(* The calibration store called directly (calibration.py) *)

(* The dicts a caller hands to apply_offsets / set_calibration *)
CalReadings ==
    { InferGaze(f) : f \in {FrameRight, FrameAside, FrameFar, FrameNoFace} }

OpGetOffsets(s) ==
    /\ store' = GetOffsetsStore(store, now)
    /\ resp' = Resp("get_offsets", s, 0, NoReading, NoReading,
                    GetOffsets(store, now, s), FALSE)
    /\ UNCHANGED <<now, lastSet>>
    /\ UNCHANGED nonCalVars

OpApplyOffsets(g, s) ==
    /\ store' = ApplyOffsetsStore(g, store, now)
    /\ resp' = Resp("apply_offsets", s, 0, g, ApplyOffsets(g, store, now, s),
                    <<0, 0>>, FALSE)
    /\ UNCHANGED <<now, lastSet>>
    /\ UNCHANGED nonCalVars

OpSetCalibration(s, g, label) ==
    /\ store' = SetCalibrationStore(store, now, s, g, label)
    /\ lastSet' = IF SetCalibrationRaises(g, label) THEN lastSet
                  ELSE [lastSet EXCEPT ![s] = SetAt(now, g)]
    /\ resp' = IF SetCalibrationRaises(g, label)
               THEN Resp("set_calibration", s, -1, g, NoReading, <<0, 0>>, FALSE)
               ELSE Resp("set_calibration", s, 0, g, NoReading, <<g.h, g.v>>, TRUE)
    /\ UNCHANGED now
    /\ UNCHANGED nonCalVars

(* get_session_info: None (flag FALSE) or the entry's h, v *)
OpGetSessionInfo(s) ==
    /\ store' = CleanupExpired(store, now)
    /\ resp' = Resp("get_session_info", s, 0, NoReading, NoReading,
                    <<store'[s].h, store'[s].v>>, store'[s].present)
    /\ UNCHANGED <<now, lastSet>>
    /\ UNCHANGED nonCalVars

(* list_active_sessions: flag says whether any session is listed *)
OpListActiveSessions ==
    /\ store' = CleanupExpired(store, now)
    /\ resp' = Resp("list_active_sessions", "A", 0, NoReading, NoReading,
                    <<0, 0>>, \E s \in Sessions : store'[s].present)
    /\ UNCHANGED <<now, lastSet>>
    /\ UNCHANGED nonCalVars

(* clear_session: flag is the bool returned *)
OpClearSession(s) ==
    /\ store' = ClearSessionStore(store, s)
    /\ resp' = Resp("clear_session", s, 0, NoReading, NoReading, <<0, 0>>,
                    store[s].present)
    /\ lastSet' = [lastSet EXCEPT ![s] = NoSet]
    /\ UNCHANGED now
    /\ UNCHANGED nonCalVars

OpClearAllSessions ==
    /\ store' = ClearAllStore(store)
    /\ resp' = Resp("clear_all_sessions", "A", 0, NoReading, NoReading,
                    <<0, 0>>, FALSE)
    /\ lastSet' = [s \in Sessions |-> NoSet]
    /\ UNCHANGED now
    /\ UNCHANGED nonCalVars

(* Time passing between calls of the calibration store: half the expiry    *)
(* time, or one ms more, so that an entry is met exactly at its expiry     *)
(* time and just after it.                                                 *)
CalSteps == { ExpiryMs \div 2, ExpiryMs \div 2 + 1 }

TickCal ==
    /\ \E d \in CalSteps :
         /\ now + d <= StartTime + MaxCalTicks * (ExpiryMs \div 2 + 1)
         /\ now' = now + d
    /\ UNCHANGED <<store, lastSet, resp>>
    /\ UNCHANGED nonCalVars

NextCal ==
    \/ \E s \in Sessions : OpGetOffsets(s)
    \/ \E s \in Sessions, g \in CalReadings : OpApplyOffsets(g, s)
    \/ \E s \in Sessions, g \in CalReadings, l \in Labels : OpSetCalibration(s, g, l)
    \/ \E s \in Sessions : OpGetSessionInfo(s)
    \/ OpListActiveSessions
    \/ \E s \in Sessions : OpClearSession(s)
    \/ OpClearAllSessions
    \/ TickCal

SpecCal == Init /\ [][NextCal]_vars

-----------------------------------------------------------------------------
(* Claims about the calibration store, checked under SpecCal *)

(* C2. Self-centering: apply_offsets called as the next operation after a  *)
(* successful set_calibration(s, r, "center") (and before its offsets      *)
(* expire), for the same session and on a reading with the raw h, v of r,  *)
(* returns h = 0 and v = 0, and the calibration field of the result holds  *)
(* the offsets that were stored.                                           *)
C2_SelfCentering ==
    [][ ( /\ resp.op = "set_calibration" /\ resp.status = 0
          /\ resp'.op = "apply_offsets" /\ resp'.sid = resp.sid
          /\ resp'.at - resp.at <= ExpiryMs
          /\ resp'.raw.error = ""
          /\ resp'.raw.h = resp.raw.h /\ resp'.raw.v = resp.raw.v )
        => ( /\ resp'.out.h = 0 /\ resp'.out.v = 0
             /\ resp'.out.cal_h = store[resp.sid].h
             /\ resp'.out.cal_v = store[resp.sid].v
             /\ store[resp.sid].present ) ]_vars

C2_Witness ==
    /\ resp.op = "apply_offsets" /\ resp.raw.error = ""
    /\ lastSet[resp.sid].at = resp.at
    /\ resp.raw.h # 0 /\ resp.raw.v # 0
    /\ resp.raw.h = lastSet[resp.sid].h /\ resp.raw.v = lastSet[resp.sid].v
    /\ resp.out.h = 0 /\ resp.out.v = 0 /\ resp.out.cal_h = resp.raw.h

(* C3. Calibration is per-session: a set_calibration or clear_session on   *)
(* session a leaves the entry of every other session b that has not        *)
(* expired as it was, so get_offsets(b) and apply_offsets(g, b) return     *)
(* what they returned before.                                              *)
C3_PerSession ==
    [][ \A a \in Sessions : \A b \in Sessions \ {a} :
          ( /\ resp'.op \in {"set_calibration", "clear_session"}
            /\ resp'.at = now /\ now' = now
            /\ resp'.sid = a
            /\ ~Expired(store[b], now) )
          => ( /\ store'[b] = store[b]
               /\ GetOffsets(store', now, b) = GetOffsets(store, now, b)
               /\ \A g \in CalReadings :
                     ApplyOffsets(g, store', now, b) = ApplyOffsets(g, store, now, b) )
      ]_vars

C3_Witness ==
    /\ resp.op \in {"set_calibration", "clear_session"}
    /\ resp.status = 0
    /\ resp.prev # store[resp.sid]
    /\ \E b \in Sessions \ {resp.sid} :
         /\ store[b].present /\ ~Expired(store[b], now)
         /\ store[b].h # 0 /\ store[b].h # resp.prev.h

(* C4. Expiry: a get_offsets made more than the TTL after the session's    *)
(* last set_calibration (or with none in force) returns (0,0) and an       *)
(* apply_offsets then subtracts nothing, whatever reads came in between;   *)
(* a read made no later than the TTL after a set_calibration still in      *)
(* force returns, and subtracts, the offsets that call stored.             *)
C4_Expiry ==
    LET set == lastSet[resp.sid]
        late == set.at = -1 \/ resp.at - set.at > ExpiryMs
    IN  /\ resp.op = "get_offsets" =>
              resp.off = IF late THEN <<0, 0>> ELSE <<set.h, set.v>>
        /\ (resp.op = "apply_offsets" /\ resp.raw.error = "") =>
              /\ resp.out.h = resp.raw.h - (IF late THEN 0 ELSE set.h)
              /\ resp.out.v = resp.raw.v - (IF late THEN 0 ELSE set.v)
        /\ resp.op = "get_session_info" => resp.flag = ~late
        /\ \A s \in Sessions :
              store[s].present => store[s].timestamp = lastSet[s].at

C4_Witness ==
    /\ resp.op = "get_offsets"
    /\ lastSet[resp.sid].at # -1
    /\ lastSet[resp.sid].h # 0
    /\ resp.at - lastSet[resp.sid].at > ExpiryMs
    /\ resp.off = <<0, 0>>

(* A step is a call of an operation when it leaves the clock alone and the *)
(* ledger holds the operation with the time of the step.                   *)
(* C10 (as claimed). set_calibration replaces the session's entry by the   *)
(* raw h, v of the reference reading and the time of the call; a call      *)
(* whose reference carries an error marker fails and leaves the session's  *)
(* entry as it was.                                                        *)
C10_Original ==
    [][ (resp'.op = "set_calibration" /\ resp'.at = now /\ now' = now) =>
          /\ resp'.status = 0 =>
                store'[resp'.sid] = Entry(resp'.raw.h, resp'.raw.v, resp'.at)
          /\ resp'.raw.error # "" =>
                /\ resp'.status = -1
                /\ store'[resp'.sid] = store[resp'.sid] ]_vars

(* C10 (amended). As above, but a failing call leaves the session's entry  *)
(* as it was only if that entry has not expired: the call purges expired   *)
(* entries before it looks at its arguments.                               *)
C10_Replaces ==
    [][ (resp'.op = "set_calibration" /\ resp'.at = now /\ now' = now) =>
          /\ resp'.status = 0 =>
                store'[resp'.sid] = Entry(resp'.raw.h, resp'.raw.v, resp'.at)
          /\ resp'.raw.error # "" =>
                /\ resp'.status = -1
                /\ store'[resp'.sid] =
                      IF Expired(store[resp'.sid], now) THEN NoEntry
                      ELSE store[resp'.sid] ]_vars

(* C17. apply_offsets recomputes on_screen from the calibrated h, v and    *)
(* the attention with the thresholds embedded in the reading or, when none *)
(* are embedded, with the thresholds of the estimator (0.6 and 0.4); so    *)
(* with a zero offset it returns the h, v and on_screen of the estimator.  *)
C17_OnScreenKept ==
    (resp.op = "apply_offsets" /\ resp.raw.error = "") =>
        /\ resp.out.on_screen =
              LET gaze_limit == IF resp.raw.thr THEN resp.raw.gaze_limit ELSE GazeLimit
                  attention_min == IF resp.raw.thr THEN resp.raw.attention_min
                                   ELSE AttentionMin
              IN  /\ Abs(resp.out.h) <= gaze_limit /\ Abs(resp.out.v) <= gaze_limit
                  /\ resp.out.attention >= attention_min
        /\ (resp.out.cal_h = 0 /\ resp.out.cal_v = 0) =>
              /\ resp.out.h = resp.raw.h /\ resp.out.v = resp.raw.v
              /\ resp.out.on_screen = resp.raw.on_screen

C10_Witness ==
    /\ resp.op = "set_calibration" /\ resp.status = 0
    /\ resp.prev.present /\ resp.prev.h # 0 /\ resp.prev.h # resp.raw.h
    /\ resp.prev.timestamp # resp.at
    /\ store[resp.sid] = Entry(resp.raw.h, resp.raw.v, resp.at)

(* C18. Every operation of the calibration store first removes the entries *)
(* older than the expiry time, so that an expired entry behaves as one     *)
(* never set: after get_offsets, apply_offsets (on a reading that is not   *)
(* an error, which it returns untouched), set_calibration,                 *)
(* get_session_info and list_active_sessions no entry of the store is      *)
(* expired at the time of the call, and clear_session on a session whose   *)
(* entry has expired returns False.                                        *)
C18_PurgeFirst ==
    /\ (\/ resp.op \in {"get_offsets", "set_calibration", "get_session_info",
                        "list_active_sessions"}
        \/ resp.op = "apply_offsets" /\ resp.raw.error = "") =>
          \A s \in Sessions : ~Expired(store[s], resp.at)
    /\ (resp.op = "clear_session" /\ Expired(resp.prev, resp.at)) => ~resp.flag

-----------------------------------------------------------------------------
(* HTTP endpoints (app.py) *)

(* The frames a client uploads *)
HttpFrames ==
    { FrameFar, FrameFarLeft, FrameNoFace, FrameUndecodable, FrameEmpty,
      FrameNotImage }

(* POST /gaze: process_gaze.  status and body of the response; raw is what *)
(* infer_gaze returned, when it ran; flag says a gaze reading is returned. *)
HttpGaze(frame, s) ==
    /\ UNCHANGED <<now, lastSet, nonCalVars>>
    /\ IF frame.kind = "notimage"
       THEN /\ resp' = Resp("POST /gaze", s, 400, NoReading,
                            Detail("not_an_image"), <<0, 0>>, FALSE)
            /\ UNCHANGED store
       ELSE IF frame.kind = "empty"
       THEN /\ resp' = Resp("POST /gaze", s, 400, NoReading,
                            Detail("empty_file"), <<0, 0>>, FALSE)
            /\ UNCHANGED store
       ELSE LET result == InferGaze(frame) IN
            IF result.error # ""
            THEN /\ resp' = Resp("POST /gaze", s, 400, result, result,
                                 <<0, 0>>, FALSE)
                 /\ UNCHANGED store
            ELSE /\ resp' = Resp("POST /gaze", s, 200, result,
                                 ApplyOffsets(result, store, now, s),
                                 GetOffsets(store, now, s), TRUE)
                 /\ store' = ApplyOffsetsStore(result, store, now)

(* POST /calibrate: calibrate_gaze *)
HttpCalibrate(frame, label, s) ==
    /\ UNCHANGED <<now, nonCalVars>>
    /\ IF frame.kind = "notimage"
       THEN /\ resp' = Resp("POST /calibrate", s, 400, NoReading,
                            Detail("not_an_image"), <<0, 0>>, FALSE)
            /\ UNCHANGED <<store, lastSet>>
       ELSE IF label # "center"
       THEN /\ resp' = Resp("POST /calibrate", s, 400, NoReading,
                            Detail("center"), <<0, 0>>, FALSE)
            /\ UNCHANGED <<store, lastSet>>
       ELSE IF frame.kind = "empty"
       THEN /\ resp' = Resp("POST /calibrate", s, 400, NoReading,
                            Detail("empty_file"), <<0, 0>>, FALSE)
            /\ UNCHANGED <<store, lastSet>>
       ELSE LET sample_gaze == InferGaze(frame) IN
            IF sample_gaze.error # ""
            THEN /\ resp' = Resp("POST /calibrate", s, 400, sample_gaze,
                                 sample_gaze, <<0, 0>>, FALSE)
                 /\ UNCHANGED <<store, lastSet>>
            ELSE /\ store' = SetCalibrationStore(store, now, s, sample_gaze, label)
                 /\ lastSet' = [lastSet EXCEPT ![s] = SetAt(now, sample_gaze)]
                 /\ resp' = Resp("POST /calibrate", s, 200, sample_gaze, NoReading,
                                 <<sample_gaze.h, sample_gaze.v>>, FALSE)

-----------------------------------------------------------------------------
(* The /ws stream (ws.py) *)

(* gaze.py process_base64_frame *)
ProcessBase64Frame(data) ==
    IF data.kind = "badbase64" THEN ErrorReading("base64_error") ELSE InferGaze(data)

(* An inbound text message: not JSON, or a JSON object with a type, and    *)
(* for a frame its data and its session_id ("default" when missing).       *)
WsMsg(type, data, sid) == [type |-> type, data |-> data, session_id |-> sid]

WsMessages ==
    { WsMsg("badjson", FrameMissing, "default"),
      WsMsg("unknown", FrameMissing, "default"),
      WsMsg("ping", FrameMissing, "default") }
    \cup { WsMsg("frame", d, sid) :
             d \in {FrameFar, FrameNoFace, FrameBadBase64, FrameMissing},
             sid \in Sessions }

RemoveConn(seq, c) == SelectSeq(seq, LAMBDA x : x # c)

(* WebSocketManager.disconnect *)
WsManagerDisconnect(active, c) == RemoveConn(active, c)

(* WebSocketManager.should_process_frame: the answer; when it is TRUE      *)
(* last_frame_time becomes the current time.                               *)
ShouldProcessFrameEarly(t, last) == t - last >= MinIntervalMs - 1

ShouldProcessFrame(t, last) == t - last >= MinIntervalMs

(* stream_ws up to its loop: WebSocketManager.connect *)
WsConnect(c) ==
    /\ ws_pc[c] = "idle"
    /\ ws_pc' = [ws_pc EXCEPT ![c] = "open"]
    /\ ws_alive' = [ws_alive EXCEPT ![c] = TRUE]
    /\ ws_active' = Append(ws_active, c)
    /\ resp' = Resp("/ws:connect", "default", 0, NoReading, NoReading, <<0, 0>>, FALSE)
    /\ UNCHANGED <<now, store, lastSet, last_frame_time, ws_log, nonWsVars>>

(* The client goes away (closes, or the transport breaks) *)
WsClientGone(c) ==
    /\ ws_pc[c] = "open" /\ ws_alive[c]
    /\ ws_alive' = [ws_alive EXCEPT ![c] = FALSE]
    /\ UNCHANGED <<now, store, lastSet, resp, ws_pc, ws_active, last_frame_time,
                   ws_log, nonWsVars>>

(* receive_text raises: the handler leaves its loop, finally: disconnect *)
WsHandlerExit(c) ==
    /\ ws_pc[c] = "open" /\ ~ws_alive[c]
    /\ ws_pc' = [ws_pc EXCEPT ![c] = "closed"]
    /\ ws_active' = WsManagerDisconnect(ws_active, c)
    /\ resp' = Resp("/ws:closed", "default", 0, NoReading, NoReading, <<0, 0>>, FALSE)
    /\ UNCHANGED <<now, store, lastSet, ws_alive, last_frame_time, ws_log,
                   nonWsVars>>

(* What one pass of the loop sends for message m, before the send itself:  *)
(* <<kind, raw, out>>, kind "skip" when nothing is sent.                   *)
WsReply(m) ==
    IF m.type = "badjson" THEN <<"error", NoReading, Detail("invalid_json")>>
    ELSE IF m.type = "ping" THEN <<"pong", NoReading, NoReading>>
    ELSE IF m.type # "frame" THEN <<"error", NoReading, Detail("unknown_type")>>
    ELSE IF ~ShouldProcessFrame(now, last_frame_time)
         THEN <<"skip", NoReading, NoReading>>
    ELSE IF m.data.kind = "missing" THEN <<"error", NoReading, Detail("no_frame_data")>>
    ELSE LET result == ProcessBase64Frame(m.data)
         IN  <<"gaze", result,
               IF result.error = "" THEN ApplyOffsets(result, store, now, m.session_id)
               ELSE result>>

(* One pass of the stream_ws loop: a message is received and handled       *)
(* (_handle_frame_message for a frame).  sent says whether the send, if    *)
(* there is one, succeeds; when it fails send_gaze_result / send_error     *)
(* catch the exception and take the connection off the list.               *)
WsMessage(c, m, sent) ==
    /\ ws_pc[c] = "open" /\ ws_alive[c]
    /\ LET r == WsReply(m)
           frame == m.type = "frame"
           processed == frame /\ ShouldProcessFrame(now, last_frame_time)
           applied == processed /\ r[1] = "gaze" /\ r[2].error = ""
       IN  /\ last_frame_time' = IF processed THEN now ELSE last_frame_time
           /\ ws_log' = IF ~frame THEN ws_log
                        ELSE [frame_from |-> c,
                              processed_from |-> IF processed THEN c
                                                 ELSE ws_log.processed_from]
           /\ store' = IF applied THEN ApplyOffsetsStore(r[2], store, now) ELSE store
           /\ IF r[1] = "skip"
              THEN /\ sent
                   /\ resp' = Resp("/ws:skip", m.session_id, 0, NoReading, NoReading,
                                   <<0, 0>>, FALSE)
                   /\ UNCHANGED <<ws_alive, ws_active>>
              ELSE IF sent
              THEN /\ resp' = Resp("/ws:" \o r[1], m.session_id, 200, r[2], r[3],
                                   IF applied THEN GetOffsets(store, now, m.session_id)
                                   ELSE <<0, 0>>,
                                   applied)
                   /\ UNCHANGED <<ws_alive, ws_active>>
              ELSE /\ resp' = Resp("/ws:lost", m.session_id, 0, r[2], NoReading,
                                   <<0, 0>>, FALSE)
                   /\ ws_alive' = [ws_alive EXCEPT ![c] = FALSE]
                   /\ ws_active' = WsManagerDisconnect(ws_active, c)
    /\ UNCHANGED <<now, lastSet, ws_pc, nonWsVars>>

(* Time passing between requests: long enough for every entry to expire *)
TickLong ==
    /\ now + ExpiryMs + 1 <= StartTime + MaxLongTicks * (ExpiryMs + 1)
    /\ now' = now + ExpiryMs + 1
    /\ UNCHANGED <<store, lastSet, resp, nonCalVars>>

Next ==
    \/ \E s \in Sessions, f \in HttpFrames : HttpGaze(f, s)
    \/ \E s \in Sessions, f \in HttpFrames, l \in Labels : HttpCalibrate(f, l, s)
    \/ \E c \in WsConns : WsConnect(c)
    \/ \E c \in WsConns : WsClientGone(c)
    \/ \E c \in WsConns : WsHandlerExit(c)
    \/ \E c \in WsConns, m \in WsMessages, sent \in BOOLEAN : WsMessage(c, m, sent)
    \/ TickLong

Spec == Init /\ [][Next]_vars

(* Two clients of the /ws stream sending frames a few ms apart: time       *)
(* passes in steps of about half of min_interval, so that two steps make   *)
(* one ms less than the interval, the interval, or one ms more             *)
ShortSteps == { MinIntervalMs \div 2, MinIntervalMs - MinIntervalMs \div 2 }

TickShort ==
    /\ \E d \in ShortSteps :
         /\ now + d <= StartTime + MaxShortTicks * (MinIntervalMs - MinIntervalMs \div 2)
         /\ now' = now + d
    /\ UNCHANGED <<store, lastSet, resp, nonCalVars>>

DebounceMessages ==
    { WsMsg("ping", FrameMissing, "default") }
    \cup { WsMsg("frame", d, "default") : d \in {FrameFar, FrameNoFace, FrameMissing} }

NextDebounce ==
    \/ \E c \in DebounceConns : WsConnect(c)
    \/ \E c \in DebounceConns, m \in DebounceMessages, sent \in BOOLEAN :
          WsMessage(c, m, sent)
    \/ TickShort

SpecDebounce == Init /\ [][NextDebounce]_vars

(* C28. The debounce of the /ws stream is one clock for all connections:   *)
(* whenever last_frame_time is set, it is set to the current time and at   *)
(* least min_interval after its previous value, so two frames are never    *)
(* processed less than min_interval apart; and a frame message that        *)
(* arrives inside the interval, on whichever connection, is skipped: no    *)
(* response, no change of last_frame_time, of the store or of the list of  *)
(* connections.                                                            *)
C28_SharedDebounce ==
    [][ /\ last_frame_time' # last_frame_time =>
              /\ last_frame_time' = now
              /\ now - last_frame_time >= MinIntervalMs
        /\ \A c \in DebounceConns : \A m \in DebounceMessages : \A sent \in BOOLEAN :
              ( /\ WsMessage(c, m, sent) /\ m.type = "frame"
                /\ now - last_frame_time < MinIntervalMs )
              => /\ resp'.op = "/ws:skip"
                 /\ last_frame_time' = last_frame_time
                 /\ store' = store /\ ws_active' = ws_active
                 /\ ws_alive' = ws_alive ]_vars

(* A frame was skipped on one connection because the other connection's    *)
(* frame had been processed one ms less than min_interval before, itself   *)
(* after an earlier processed frame                                        *)
C28_Witness ==
    /\ resp.op = "/ws:skip"
    /\ ws_log.processed_from # 0
    /\ ws_log.frame_from # ws_log.processed_from
    /\ resp.at - last_frame_time = MinIntervalMs - 1
    /\ last_frame_time > StartTime

-----------------------------------------------------------------------------
(* Claims about the readings the app.py endpoints and the /ws stream       *)
(* deliver, checked under Spec                                             *)

(* A gaze reading was returned to the caller by the last operation *)
Delivered == resp.flag /\ resp.op \in {"POST /gaze", "/ws:gaze", "/gaze/ws:gaze"}

(* C9. Every gaze reading returned to a caller has attention in [0,1] and *)
(* h, v inside the clamp range of the estimator that produced it (+-1.5    *)
(* for infer_gaze), also after the offset has been applied.                *)
C9_WithinEstimatorClamp ==
    Delivered =>
        /\ 0 <= resp.out.attention /\ resp.out.attention <= One
        /\ Abs(resp.out.h) <= EstimatorClamp
        /\ Abs(resp.out.v) <= EstimatorClamp

-----------------------------------------------------------------------------
(* POST /calibrate of app.py next to direct calls of set_calibration *)

(* The frames uploaded, and the dicts handed to set_calibration *)
CalibrateFrames == {FrameFar, FrameNoFace, FrameEmpty, FrameNotImage}

CalibrateReadings == { InferGaze(f) : f \in {FrameRight, FrameNoFace} }

NextCalibrate ==
    \/ \E s \in Sessions, f \in CalibrateFrames, l \in Labels : HttpCalibrate(f, l, s)
    \/ \E s \in Sessions, g \in CalibrateReadings, l \in Labels :
          OpSetCalibration(s, g, l)
    \/ TickCal

SpecCalibrate == Init /\ [][NextCalibrate]_vars

(* The estimator behind POST /gaze and POST /calibrate, on frames whose    *)
(* eyes agree, disagree, or are degenerate                                 *)
EstimateFrames ==
    { FrameCentre, FrameRight, FrameAside, FrameFar, FrameCrossed, FrameOneEye,
      FrameNoFace }

NextEstimate ==
    \/ \E s \in Sessions, f \in EstimateFrames : HttpGaze(f, s)
    \/ \E s \in Sessions, f \in EstimateFrames : HttpCalibrate(f, "center", s)
    \/ TickLong

SpecEstimate == Init /\ [][NextEstimate]_vars

(* infer_gaze: the raw h, v of a frame, the average over the two eyes of   *)
(* dx and of dy, before the clamp                                          *)
RawGaze(frame) ==
    LET l == EyeMetrics(frame.left)
        r == EyeMetrics(frame.right)
    IN  <<(l[1] + r[1]) \div 2, (l[2] + r[2]) \div 2>>

(* C23. The attention the estimator returns for a frame with a face is     *)
(* 1 - min(1, (|h| + |v|) / 2), for the raw h, v that average dx and dy    *)
(* over the two eyes, whatever the two eyes' displacements are.            *)
C23_AttentionFromGaze ==
    [][ \A s \in Sessions : \A f \in EstimateFrames :
          (HttpGaze(f, s) /\ f.kind = "face") =>
              resp'.raw.attention =
                 One - Min(One, (Abs(RawGaze(f)[1]) + Abs(RawGaze(f)[2])) \div 2) ]_vars

(* C11. POST /calibrate with an image frame and a label other than         *)
(* "center" answers 400 with a detail that names "center", runs no gaze    *)
(* inference and leaves the entry of every session as it was;              *)
(* set_calibration with such a label raises and no session has an entry    *)
(* afterwards that it did not have before the call.                        *)
C11_LabelRefused ==
    [][ \A s \in Sessions : \A l \in Labels \ {"center"} :
          /\ \A f \in CalibrateFrames \ {FrameNotImage} :
                HttpCalibrate(f, l, s) =>
                    /\ resp'.status = 400
                    /\ resp'.out = Detail("center")
                    /\ resp'.raw = NoReading
                    /\ store' = store
          /\ \A g \in CalibrateReadings :
                OpSetCalibration(s, g, l) =>
                    /\ resp'.status = -1
                    /\ \A x \in Sessions : store'[x].present => store'[x] = store[x]
      ]_vars

(* The endpoint refused a label while a session had offsets stored *)
C11_Witness ==
    /\ resp.op = "POST /calibrate" /\ resp.status = 400
    /\ resp.out = Detail("center")
    /\ \E s \in Sessions : store[s].present /\ store[s].h # 0

-----------------------------------------------------------------------------
(* The per-session stream /gaze/ws/{session_id}                            *)
(* (gaze_websocket_server.py, gaze_optimized.py) and the app_optimized.py  *)
(* endpoint that calibrates the sessions it serves                         *)

(* gaze_optimized.py _eye_metrics_optimized *)
EyeMetricsOptimized(eye) ==
    IF eye.width = 0 \/ eye.height = 0 THEN <<0, 0, 0>>
    ELSE LET dx == (2 * One * eye.dcx) \div eye.width
             dy == (2 * One * eye.dcy) \div eye.height
         IN  <<dx, dy, One - Min(One, (Abs(dx) + Abs(dy)) \div 2)>>

(* gaze_optimized.py infer_gaze_optimized *)
InferGazeOptimized(frame) ==
    IF frame.kind = "noface" THEN ErrorReading("no_face")
    ELSE IF frame.kind # "face" THEN ErrorReading("processing_error")
    ELSE LET l == EyeMetricsOptimized(frame.left)
             r == EyeMetricsOptimized(frame.right)
             dx == Clip((l[1] + r[1]) \div 2, -EstimatorClamp, EstimatorClamp)
             dy == Clip((l[2] + r[2]) \div 2, -EstimatorClamp, EstimatorClamp)
             attention == (l[3] + r[3]) \div 2
             on_screen == Abs(dx) <= GazeLimit /\ Abs(dy) <= GazeLimit
                          /\ attention >= AttentionMin
         IN  Reading(dx, dy, attention, on_screen, 0, 0)

(* app_optimized.py POST /calibrate: calibrate_gaze_optimized *)
OptCalibrate(frame, label, s) ==
    /\ UNCHANGED <<now, nonCalVars>>
    /\ IF frame.kind = "notimage"
       THEN /\ resp' = Resp("POST /calibrate", s, 400, NoReading,
                            Detail("not_an_image"), <<0, 0>>, FALSE)
            /\ UNCHANGED <<store, lastSet>>
       ELSE IF label # "center"
       THEN /\ resp' = Resp("POST /calibrate", s, 400, NoReading,
                            Detail("center"), <<0, 0>>, FALSE)
            /\ UNCHANGED <<store, lastSet>>
       ELSE IF frame.kind = "empty"
       THEN /\ resp' = Resp("POST /calibrate", s, 400, NoReading,
                            Detail("empty_file"), <<0, 0>>, FALSE)
            /\ UNCHANGED <<store, lastSet>>
       ELSE LET sample_gaze == InferGazeOptimized(frame) IN
            IF sample_gaze.error # ""
            THEN /\ resp' = Resp("POST /calibrate", s, 400, sample_gaze,
                                 sample_gaze, <<0, 0>>, FALSE)
                 /\ UNCHANGED <<store, lastSet>>
            ELSE /\ store' = SetCalibrationStore(store, now, s, sample_gaze, label)
                 /\ lastSet' = [lastSet EXCEPT ![s] = SetAt(now, sample_gaze)]
                 /\ resp' = Resp("POST /calibrate", s, 200, sample_gaze, NoReading,
                                 <<sample_gaze.h, sample_gaze.v>>, FALSE)

(* GazeWebSocketManager.disconnect (the session object leaves the dict     *)
(* with is_active False; NoSession stands for it)                          *)
GwsDisconnectKeep(conns, sid) == [conns EXCEPT ![sid].is_active = FALSE]

GwsDisconnect(conns, sid) == [conns EXCEPT ![sid] = NoSession]

(* _analyze_focus: the attention value joins the history, which keeps its  *)
(* last HistoryCap values (append, then pop(0) when it is too long)        *)
AppendHistoryDropNewest(attention_history, attention) ==
    LET appended == Append(attention_history, attention)
    IN  IF Len(appended) > HistoryCap THEN SubSeq(appended, 1, HistoryCap)
        ELSE appended

AppendHistory(attention_history, attention) ==
    LET appended == Append(attention_history, attention)
    IN  IF Len(appended) > HistoryCap THEN Tail(appended) ELSE appended

(* _analyze_focus: the focus score of a reading, in 1/400 of a point *)
FocusScoreInclusive(g) ==
    Min(FocusScoreMax * One,
        (IF g.on_screen THEN FocusOnScreenPoints * One ELSE 0)
        + g.attention * FocusAttentionWeight
        + (IF Abs(g.h) <= CentreLimit /\ Abs(g.v) <= CentreLimit
           THEN FocusCentreBonus * One ELSE 0))

FocusScore(g) ==
    Min(FocusScoreMax * One,
        (IF g.on_screen THEN FocusOnScreenPoints * One ELSE 0)
        + g.attention * FocusAttentionWeight
        + (IF Abs(g.h) < CentreLimit /\ Abs(g.v) < CentreLimit
           THEN FocusCentreBonus * One ELSE 0))

(* GazeWebSocketManager._analyze_focus for a registered session: whether   *)
(* it raised (the older half of the trend is empty: division by zero), the *)
(* session as the call leaves it, and the dict it returns.  The focus      *)
(* score is kept in 1/400 of a point.                                      *)
AnalyzeFocus(session, g, t) ==
    IF ~session.present
    THEN [raised |-> FALSE, session |-> session,
          analysis |-> [NoFocus EXCEPT !.status = "unknown"]]
    ELSE LET focus_score == FocusScore(g)
             history == AppendHistory(session.attention_history, g.attention)
             zero_division == Len(history) >= TrendWindow
                              /\ Len(history) - TrendWindow = 0
             detected == /\ focus_score < FocusLossBelow * One
                         /\ g.on_screen
                         /\ t - session.last_gaze_time > focus_loss_timeout
             notify == detected
                       /\ t - session.last_notification_time > notification_cooldown
             count == session.focus_loss_count + (IF detected THEN 1 ELSE 0)
             status == IF notify THEN "focus_lost"
                       ELSE IF focus_score < DistractedBelow * One THEN "distracted"
                       ELSE IF focus_score < WaveringBelow * One THEN "wavering"
                       ELSE "focused"
         IN  IF zero_division
             THEN [raised |-> TRUE,
                   session |-> [session EXCEPT !.attention_history = history],
                   analysis |-> NoFocus]
             ELSE [raised |-> FALSE,
                   session |-> [session EXCEPT
                                  !.attention_history = history,
                                  !.focus_loss_count = count,
                                  !.last_notification_time = IF notify THEN t ELSE @,
                                  !.last_gaze_time = IF g.on_screen THEN t ELSE @],
                   analysis |-> [status |-> status, focus_score |-> focus_score,
                                 focus_loss_detected |-> detected,
                                 focus_loss_count |-> count,
                                 attention_history_length |-> Len(history)]]

(* GazeWebSocketManager.process_gaze_frame: ok is FALSE when it returns    *)
(* None; gaze is what infer_gaze_optimized returned; session is the        *)
(* session's entry afterwards.                                             *)
ProcessGazeFrame(conns, sid, frame, t) ==
    LET gaze_result == IF frame.kind = "badbase64" THEN ErrorReading("base64_error")
                       ELSE InferGazeOptimized(frame)
        fa == AnalyzeFocus(conns[sid], gaze_result, t)
    IN  IF gaze_result.error # ""
        THEN [ok |-> FALSE, gaze |-> gaze_result, session |-> conns[sid],
              focus_analysis |-> NoFocus]
        ELSE [ok |-> ~fa.raised, gaze |-> gaze_result, session |-> fa.session,
              focus_analysis |-> fa.analysis]

(* An inbound text message of the per-session stream *)
GwsMsg(type, data) == [type |-> type, data |-> data]

GwsMessages ==
    { GwsMsg(t, FrameMissing) : t \in {"badjson", "unknown", "ping", "get_stats"} }
    \cup { GwsMsg("frame", d) :
             d \in {FrameCentre, FrameFar, FrameNoFace, FrameBadBase64, FrameMissing} }

(* gaze_websocket_endpoint up to its loop: GazeWebSocketManager.connect.   *)
(* The session is registered before the confirmation is sent; when that    *)
(* send raises the exception leaves the endpoint, which has not entered    *)
(* its try block yet.                                                      *)
GwsConnect(c, sid, sent) ==
    /\ gws_pc[c] = "idle"
    /\ gws_sid' = [gws_sid EXCEPT ![c] = sid]
    /\ active_connections' = [active_connections EXCEPT ![sid] = GazeSession(c, now)]
    /\ gws_pc' = [gws_pc EXCEPT ![c] = IF sent THEN "open" ELSE "closed"]
    /\ gws_alive' = [gws_alive EXCEPT ![c] = sent]
    /\ gws_out' = IF sent THEN GwsOut("connection", c, sid, NoFocus, FALSE) ELSE gws_out
    /\ resp' = Resp(IF sent THEN "/gaze/ws:connect" ELSE "/gaze/ws:lost", sid, 0,
                    NoReading, NoReading, <<0, 0>>, FALSE)
    /\ UNCHANGED <<now, store, lastSet, gaze_cache, gws_frames, nonGwsVars>>

(* The client goes away (closes, or the transport breaks) *)
GwsClientGone(c) ==
    /\ gws_pc[c] = "open" /\ gws_alive[c]
    /\ gws_alive' = [gws_alive EXCEPT ![c] = FALSE]
    /\ UNCHANGED <<now, store, lastSet, resp, gws_pc, gws_sid, active_connections,
                   gaze_cache, gws_frames, gws_out, nonGwsVars>>

(* receive_text raises: the handler leaves its loop, finally: disconnect *)
GwsHandlerExit(c) ==
    /\ gws_pc[c] = "open" /\ ~gws_alive[c]
    /\ gws_pc' = [gws_pc EXCEPT ![c] = "closed"]
    /\ active_connections' = GwsDisconnect(active_connections, gws_sid[c])
    /\ resp' = Resp("/gaze/ws:closed", gws_sid[c], 0, NoReading, NoReading,
                    <<0, 0>>, FALSE)
    /\ UNCHANGED <<now, store, lastSet, gws_sid, gws_alive, gaze_cache, gws_frames,
                   gws_out, nonGwsVars>>

(* A new client arrives: a new WebSocket object, which takes the place of  *)
(* one whose endpoint has ended and that no session refers to any more     *)
GwsNewClient(c) ==
    /\ gws_pc[c] = "closed"
    /\ \A s \in Sessions :
          ~(active_connections[s].present /\ active_connections[s].websocket = c)
    /\ gws_pc' = [gws_pc EXCEPT ![c] = "idle"]
    /\ UNCHANGED <<now, store, lastSet, resp, gws_sid, gws_alive, active_connections,
                   gaze_cache, gws_frames, gws_out, nonGwsVars>>

(* The handler ends on an exception raised inside its loop *)
GwsAbort(c, raw) ==
    /\ gws_pc' = [gws_pc EXCEPT ![c] = "closed"]
    /\ gws_alive' = [gws_alive EXCEPT ![c] = FALSE]
    /\ active_connections' = GwsDisconnect(active_connections, gws_sid[c])
    /\ resp' = Resp("/gaze/ws:closed", gws_sid[c], 0, raw, NoReading, <<0, 0>>, FALSE)
    /\ UNCHANGED <<gaze_cache, gws_frames, gws_out>>

(* Nothing is sent for the message and the loop goes on *)
GwsSilent(c, raw) ==
    /\ resp' = Resp("/gaze/ws:none", gws_sid[c], 0, raw, NoReading, <<0, 0>>, FALSE)
    /\ UNCHANGED <<gws_pc, gws_alive, gws_out>>

(* One pass of the gaze_websocket_endpoint loop for a frame message with   *)
(* data: process_gaze_frame, then broadcast_gaze_update to the websocket   *)
(* registered for the session, then send_focus_alert when a focus loss     *)
(* was detected.  sent, alerted: whether the two sends succeed.            *)
GwsFrame(c, frame, sent, alerted) ==
    LET sid == gws_sid[c]
        p == ProcessGazeFrame(active_connections, sid, frame, now)
        conns == [active_connections EXCEPT ![sid] = p.session]
        target == conns[sid]
        w == target.websocket
        loss == p.focus_analysis.focus_loss_detected
    IN  /\ gws_frames' = gws_frames + 1
        /\ gaze_cache' = IF p.ok
                         THEN [gaze_cache EXCEPT ![sid] =
                                 [present |-> TRUE, timestamp |-> now, gaze |-> p.gaze]]
                         ELSE gaze_cache
        /\ IF ~p.ok \/ ~(target.present /\ target.is_active)
           THEN /\ sent /\ alerted
                /\ active_connections' = conns
                /\ GwsSilent(c, p.gaze)
           ELSE IF ~(sent /\ gws_alive[w])
           THEN /\ alerted
                /\ active_connections' = GwsDisconnect(conns, sid)
                /\ gws_alive' = [gws_alive EXCEPT ![w] = FALSE]
                /\ resp' = Resp("/gaze/ws:lost", sid, 0, p.gaze, NoReading, <<0, 0>>, FALSE)
                /\ UNCHANGED <<gws_pc, gws_out>>
           ELSE /\ resp' = Resp("/gaze/ws:gaze", sid, 200, p.gaze, p.gaze,
                                GetOffsets(store, now, sid), TRUE)
                /\ gws_out' = GwsOut("gaze", w, sid, p.focus_analysis, loss /\ alerted)
                /\ (~loss => alerted)
                /\ active_connections' = IF loss /\ ~alerted
                                         THEN GwsDisconnect(conns, sid) ELSE conns
                /\ gws_alive' = IF loss /\ ~alerted
                                THEN [gws_alive EXCEPT ![w] = FALSE] ELSE gws_alive
                /\ UNCHANGED gws_pc

(* One pass of the gaze_websocket_endpoint loop *)
GwsMessage(c, m, sent, alerted) ==
    /\ gws_pc[c] = "open" /\ gws_alive[c]
    /\ UNCHANGED <<now, store, lastSet, gws_sid, nonGwsVars>>
    /\ IF m.type = "frame" /\ m.data.kind # "missing"
       THEN gws_frames < MaxGwsFrames /\ GwsFrame(c, m.data, sent, alerted)
       ELSE /\ alerted
            /\ IF m.type = "badjson"
               THEN sent /\ GwsAbort(c, NoReading)
               ELSE IF m.type \in {"ping", "get_stats"}
               THEN IF sent
                    THEN /\ gws_out' = GwsOut(IF m.type = "ping" THEN "pong" ELSE "stats",
                                              c, gws_sid[c], NoFocus, FALSE)
                         /\ resp' = Resp("/gaze/ws:" \o gws_out'.type, gws_sid[c], 200,
                                         NoReading, NoReading, <<0, 0>>, FALSE)
                         /\ UNCHANGED <<gws_pc, gws_alive, active_connections,
                                        gaze_cache, gws_frames>>
                    ELSE GwsAbort(c, NoReading)
               ELSE /\ sent
                    /\ GwsSilent(c, NoReading)
                    /\ UNCHANGED <<active_connections, gaze_cache, gws_frames>>

GwsFrames == {FrameFar, FrameNoFace}

NextGws ==
    \/ \E s \in Sessions, f \in GwsFrames, l \in Labels : OptCalibrate(f, l, s)
    \/ \E c \in GwsConns, sid \in Sessions, sent \in BOOLEAN : GwsConnect(c, sid, sent)
    \/ \E c \in GwsConns : GwsClientGone(c)
    \/ \E c \in GwsConns : GwsHandlerExit(c)
    \/ \E c \in GwsConns : GwsNewClient(c)
    \/ \E c \in GwsConns, m \in GwsMessages, sent \in BOOLEAN, alerted \in BOOLEAN :
          GwsMessage(c, m, sent, alerted)
    \/ TickLong

SpecGws == Init /\ [][NextGws]_vars

-----------------------------------------------------------------------------
(* Claims about every delivery path, checked under SpecGws for the         *)
(* per-session stream                                                      *)

(* C1. Whenever a gaze reading is returned to a caller for a session, on   *)
(* any delivery path, the session's stored offset has been subtracted from *)
(* the estimator's h, v (and the result clamped), and the reading reports  *)
(* that offset as its calibration.                                         *)
C1_CalibrationApplied ==
    Delivered =>
        /\ resp.out.h = Clip(resp.raw.h - resp.off[1], -CalibClamp, CalibClamp)
        /\ resp.out.v = Clip(resp.raw.v - resp.off[2], -CalibClamp, CalibClamp)
        /\ resp.out.cal_h = resp.off[1]
        /\ resp.out.cal_v = resp.off[2]

(* The operations that answer a frame a client sent and that the client    *)
(* is there to hear                                                        *)
FrameAnswers ==
    {"POST /gaze", "POST /calibrate", "/ws:gaze", "/gaze/ws:gaze", "/gaze/ws:none"}

(* C8. When the estimator finds no face in a frame, the error no_face is   *)
(* what the caller gets on every delivery path, and no gaze reading.       *)
C8_NoFaceSurfaced ==
    (resp.op \in FrameAnswers /\ resp.raw.error = "no_face") =>
        /\ resp.out.error = "no_face"
        /\ ~resp.flag

(* The inbound messages that are in error: not JSON, of an unknown type,   *)
(* or a frame that the estimator cannot process                            *)
WsBadMessages ==
    { m \in WsMessages :
        \/ m.type \in {"badjson", "unknown"}
        \/ m.type = "frame" /\ m.data.kind \in {"noface", "badbase64"} }

GwsBadMessages ==
    { m \in GwsMessages :
        \/ m.type \in {"badjson", "unknown"}
        \/ m.type = "frame" /\ m.data.kind \in {"noface", "badbase64"} }

(* C12. On both streams a message in error that reaches a handler whose    *)
(* client is there (and, on /ws, that the debounce lets through) is        *)
(* answered by a message that carries the error, the handler stays in its  *)
(* loop and the connection stays registered.                               *)
C12_ErrorsInBand ==
    [][ /\ \A c \in WsConns : \A m \in WsBadMessages :
              ( WsMessage(c, m, TRUE)
                /\ (m.type = "frame" => ShouldProcessFrame(now, last_frame_time)) )
              => /\ resp'.op \in {"/ws:error", "/ws:gaze"}
                 /\ resp'.out.error \notin {"", "none"}
                 /\ ws_pc'[c] = "open"
                 /\ \E i \in 1..Len(ws_active') : ws_active'[i] = c
        /\ \A c \in GwsConns : \A m \in GwsBadMessages :
              GwsMessage(c, m, TRUE, TRUE)
              => /\ gws_out'.type = "error" /\ gws_out'.to = c
                 /\ gws_pc'[c] = "open"
                 /\ active_connections'[gws_sid[c]].present
      ]_vars

(* C13. Once the endpoint of a /gaze/ws connection has ended, however it   *)
(* ended, active_connections holds no session for that connection (nothing *)
(* that runs later would remove it), and a gaze message is only ever sent  *)
(* to a connection whose client is there.                                  *)
C13_SessionReleased ==
    [][ /\ \A c \in GwsConns :
              gws_pc'[c] = "closed" =>
                  ~( /\ active_connections'[gws_sid'[c]].present
                     /\ active_connections'[gws_sid'[c]].websocket = c )
        /\ (gws_out' # gws_out /\ gws_out'.type = "gaze") => gws_alive[gws_out'.to]
      ]_vars

(* C14. Disconnected is terminal: a session that disconnect has run for is *)
(* out of active_connections, so every session that can be looked up is    *)
(* active, and a session only enters active_connections by a connect,      *)
(* which makes a new one: attention_history empty, focus_loss_count 0,     *)
(* is_active True, whatever the session_id had registered before.          *)
C14_NoResurrection ==
    [][ \A s \in Sessions :
          /\ active_connections'[s].present => active_connections'[s].is_active
          /\ ( /\ active_connections'[s].present
               /\ \/ ~active_connections[s].present
                  \/ (resp'.op = "/gaze/ws:connect" /\ resp'.sid = s /\ resp' # resp) )
             => \E c \in GwsConns : active_connections'[s] = GazeSession(c, now)
      ]_vars

(* A session_id that served a frame and was disconnected is connected      *)
(* again and has a new session                                             *)
C14_Witness ==
    /\ resp.op = "/gaze/ws:connect"
    /\ gaze_cache[resp.sid].present
    /\ gws_frames > 0
    /\ active_connections[resp.sid].present
    /\ active_connections[resp.sid].attention_history = <<>>
    /\ active_connections[resp.sid].focus_loss_count = 0

-----------------------------------------------------------------------------
(* The lazy-loading application (app_lazy.py) and its estimator            *)
(* (gaze_roboflow.py)                                                      *)

(* The size in pixels of the images that are uploaded *)
ImageWidth == 100
ImageHeight == 100

(* math.sqrt, rounded down to the unit *)
Isqrt(n) == CHOOSE r \in 0..(2 * RoboClamp) : r * r <= n /\ n < (r + 1) * (r + 1)

(* gaze_roboflow.py infer_gaze_roboflow (a new RobustGazeDetector for each *)
(* call; smoothed_attention and the other extra keys are not carried)      *)
InferGazeRoboflow(frame) ==
    IF frame.kind = "noface" THEN ErrorReading("no_face")
    ELSE IF frame.kind = "undecodable" THEN ErrorReading("invalid_image")
    ELSE IF frame.kind # "face" THEN ErrorReading("processing_error")
    ELSE LET off_x == ((frame.left.dcx + frame.right.dcx) * One) \div 2
             off_y == ((frame.left.dcy + frame.right.dcy) * One) \div 2
             dx == Clip((off_x * 10) \div (ImageWidth * RoboNormTenths),
                        -RoboClamp, RoboClamp)
             dy == Clip((off_y * 10) \div (ImageHeight * RoboNormTenths),
                        -RoboClamp, RoboClamp)
             distance == Isqrt(dx * dx + dy * dy)
             attention ==
                 IF distance <= RoboNear THEN One
                 ELSE IF distance <= RoboMid
                 THEN One - ((distance - RoboNear) * RoboMidSlopeTenths) \div 10
                 ELSE Max(0, RoboFarBase
                             - ((distance - RoboMid) * RoboFarSlopeTenths) \div 10)
             on_screen == distance <= RoboGazeThreshold /\ attention >= RoboAttentionMin
         IN  [Reading(dx, dy, attention, on_screen, 0, 0) EXCEPT
                 !.thr = TRUE, !.gaze_limit = RoboGazeThreshold,
                 !.attention_min = RoboAttentionMin]

(* The test every handler of app_lazy.py starts with: "if not ready" *)
NotReadyUnlessLoaded(r, l) == l

NotReady(r, l) == ~r

(* load_modules, started by the startup event in a thread of its own: up   *)
(* to the imports                                                          *)
LazyLoadBegin ==
    /\ lazy_pc.loader = "starting"
    /\ IF loading
       THEN /\ lazy_pc' = [lazy_pc EXCEPT !.loader = "returned"]
            /\ UNCHANGED loading
       ELSE /\ lazy_pc' = [lazy_pc EXCEPT !.loader = "importing"]
            /\ loading' = TRUE
    /\ UNCHANGED <<now, store, lastSet, resp, ready, modules, websocket_sessions,
                   nonLazyVars>>

(* load_modules: the imports succeed (ok) or raise, then finally *)
LazyLoadEnd(ok) ==
    /\ lazy_pc.loader = "importing"
    /\ lazy_pc' = [lazy_pc EXCEPT !.loader = IF ok THEN "loaded" ELSE "failed"]
    /\ modules' = IF ok THEN TRUE ELSE modules
    /\ ready' = ok
    /\ loading' = FALSE
    /\ UNCHANGED <<now, store, lastSet, resp, websocket_sessions, nonLazyVars>>

(* app_lazy.py POST /gaze: process_gaze *)
LazyGaze(frame, s) ==
    /\ UNCHANGED <<now, lastSet, lazyVars, nonLazyVars>>
    /\ IF NotReady(ready, loading)
       THEN /\ resp' = Resp("lazy POST /gaze", s, 503, NoReading,
                            Detail("initializing"), <<0, 0>>, FALSE)
            /\ UNCHANGED store
       ELSE IF frame.kind = "notimage"
       THEN /\ resp' = Resp("lazy POST /gaze", s, 400, NoReading,
                            Detail("not_an_image"), <<0, 0>>, FALSE)
            /\ UNCHANGED store
       ELSE IF frame.kind = "empty"
       THEN /\ resp' = Resp("lazy POST /gaze", s, 400, NoReading,
                            Detail("empty_file"), <<0, 0>>, FALSE)
            /\ UNCHANGED store
       ELSE IF ~modules
       THEN /\ resp' = Resp("lazy POST /gaze", s, 500, NoReading,
                            Detail("internal_error"), <<0, 0>>, FALSE)
            /\ UNCHANGED store
       ELSE LET result == InferGazeRoboflow(frame) IN
            IF result.error # ""
            THEN /\ resp' = Resp("lazy POST /gaze", s, 400, result, result,
                                 <<0, 0>>, FALSE)
                 /\ UNCHANGED store
            ELSE /\ resp' = Resp("lazy POST /gaze", s, 200, result,
                                 ApplyOffsets(result, store, now, s),
                                 GetOffsets(store, now, s), TRUE)
                 /\ store' = ApplyOffsetsStore(result, store, now)

(* app_lazy.py POST /calibrate: calibrate_gaze (a ValueError of            *)
(* set_calibration would be answered 500; none is raised here)             *)
LazyCalibrate(frame, label, s) ==
    /\ UNCHANGED <<now, lazyVars, nonLazyVars>>
    /\ IF NotReady(ready, loading)
       THEN /\ resp' = Resp("lazy POST /calibrate", s, 503, NoReading,
                            Detail("initializing"), <<0, 0>>, FALSE)
            /\ UNCHANGED <<store, lastSet>>
       ELSE IF frame.kind = "notimage"
       THEN /\ resp' = Resp("lazy POST /calibrate", s, 400, NoReading,
                            Detail("not_an_image"), <<0, 0>>, FALSE)
            /\ UNCHANGED <<store, lastSet>>
       ELSE IF label # "center"
       THEN /\ resp' = Resp("lazy POST /calibrate", s, 400, NoReading,
                            Detail("center"), <<0, 0>>, FALSE)
            /\ UNCHANGED <<store, lastSet>>
       ELSE IF frame.kind = "empty"
       THEN /\ resp' = Resp("lazy POST /calibrate", s, 400, NoReading,
                            Detail("empty_file"), <<0, 0>>, FALSE)
            /\ UNCHANGED <<store, lastSet>>
       ELSE IF ~modules
       THEN /\ resp' = Resp("lazy POST /calibrate", s, 500, NoReading,
                            Detail("internal_error"), <<0, 0>>, FALSE)
            /\ UNCHANGED <<store, lastSet>>
       ELSE LET sample_gaze == InferGazeRoboflow(frame) IN
            IF sample_gaze.error # ""
            THEN /\ resp' = Resp("lazy POST /calibrate", s, 400, sample_gaze,
                                 sample_gaze, <<0, 0>>, FALSE)
                 /\ UNCHANGED <<store, lastSet>>
            ELSE /\ store' = SetCalibrationStore(store, now, s, sample_gaze, label)
                 /\ lastSet' = [lastSet EXCEPT ![s] = SetAt(now, sample_gaze)]
                 /\ resp' = Resp("lazy POST /calibrate", s, 200, sample_gaze, NoReading,
                                 <<sample_gaze.h, sample_gaze.v>>, FALSE)

(* app_lazy.py gaze_websocket_endpoint up to its loop: the connection is   *)
(* closed, or accepted and registered under its session_id                 *)
LazyWsConnect(c, sid) ==
    /\ lazy_pc.ws[c] = "idle"
    /\ IF NotReady(ready, loading)
       THEN /\ lazy_pc' = [lazy_pc EXCEPT !.ws[c] = "refused"]
            /\ resp' = Resp("lazy/ws:refused", sid, 1008, NoReading, NoReading,
                            <<0, 0>>, FALSE)
            /\ UNCHANGED websocket_sessions
       ELSE /\ lazy_pc' = [lazy_pc EXCEPT !.ws[c] = sid]
            /\ websocket_sessions' = [websocket_sessions EXCEPT ![sid] = c]
            /\ resp' = Resp("lazy/ws:connect", sid, 0, NoReading, NoReading,
                            <<0, 0>>, FALSE)
    /\ UNCHANGED <<now, store, lastSet, ready, loading, modules, nonLazyVars>>

(* One pass of the loop of the stream handler: a frame with data is        *)
(* analysed and answered (the reading with the offsets applied, or the     *)
(* error dict); a ping is answered; anything else is ignored.  sent:       *)
(* whether the sends succeed.  A failed send, and a message that is not    *)
(* JSON, end the handler: finally, the session leaves websocket_sessions.  *)
LazyWsMessage(c, m, sent) ==
    LET sid == lazy_pc.ws[c]
        frame == m.type = "frame" /\ m.data.kind # "missing"
        result == IF ~modules THEN ErrorReading("processing_error")
                  ELSE IF m.data.kind = "badbase64" THEN ErrorReading("processing_error")
                  ELSE InferGazeRoboflow(m.data)
        applied == frame /\ result.error = ""
        ends == m.type = "badjson" \/ (~sent /\ (frame \/ m.type = "ping"))
    IN  /\ lazy_pc.ws[c] \in Sessions
        /\ (sent \/ frame \/ m.type = "ping")
        /\ store' = IF applied THEN ApplyOffsetsStore(result, store, now) ELSE store
        /\ resp' = IF ends
                   THEN Resp("lazy/ws:closed", sid, 0, NoReading, NoReading,
                             <<0, 0>>, FALSE)
                   ELSE IF frame
                   THEN Resp("lazy/ws:gaze", sid, 200, result,
                             IF applied THEN ApplyOffsets(result, store, now, sid)
                             ELSE result,
                             IF applied THEN GetOffsets(store, now, sid) ELSE <<0, 0>>,
                             applied)
                   ELSE IF m.type = "ping"
                   THEN Resp("lazy/ws:pong", sid, 200, NoReading, NoReading,
                             <<0, 0>>, FALSE)
                   ELSE Resp("lazy/ws:none", sid, 0, NoReading, NoReading,
                             <<0, 0>>, FALSE)
        /\ lazy_pc' = IF ends THEN [lazy_pc EXCEPT !.ws[c] = "closed"] ELSE lazy_pc
        /\ websocket_sessions' = IF ends THEN [websocket_sessions EXCEPT ![sid] = 0]
                                 ELSE websocket_sessions
        /\ UNCHANGED <<now, lastSet, ready, loading, modules, nonLazyVars>>

(* The client goes away: receive_text raises, finally *)
LazyWsExit(c) ==
    /\ lazy_pc.ws[c] \in Sessions
    /\ lazy_pc' = [lazy_pc EXCEPT !.ws[c] = "closed"]
    /\ websocket_sessions' = [websocket_sessions EXCEPT ![lazy_pc.ws[c]] = 0]
    /\ resp' = Resp("lazy/ws:closed", lazy_pc.ws[c], 0, NoReading, NoReading,
                    <<0, 0>>, FALSE)
    /\ UNCHANGED <<now, store, lastSet, ready, loading, modules, nonLazyVars>>

(* A new client arrives *)
LazyWsNewClient(c) ==
    /\ lazy_pc.ws[c] \in {"refused", "closed"}
    /\ lazy_pc' = [lazy_pc EXCEPT !.ws[c] = "idle"]
    /\ UNCHANGED <<now, store, lastSet, resp, ready, loading, modules,
                   websocket_sessions, nonLazyVars>>

LazyFrames == {FrameRight, FrameFarLeft, FrameNoFace, FrameNotImage}

LazyMessages ==
    { GwsMsg(t, FrameMissing) : t \in {"badjson", "unknown", "ping"} }
    \cup { GwsMsg("frame", d) : d \in {FrameRight, FrameFarLeft, FrameNoFace, FrameMissing} }

NextLazy ==
    \/ LazyLoadBegin
    \/ \E ok \in BOOLEAN : LazyLoadEnd(ok)
    \/ \E s \in Sessions, f \in LazyFrames : LazyGaze(f, s)
    \/ \E s \in Sessions, f \in LazyFrames, l \in Labels : LazyCalibrate(f, l, s)
    \/ \E c \in LazyConns, sid \in Sessions : LazyWsConnect(c, sid)
    \/ \E c \in LazyConns, m \in LazyMessages, sent \in BOOLEAN : LazyWsMessage(c, m, sent)
    \/ \E c \in LazyConns : LazyWsExit(c)
    \/ \E c \in LazyConns : LazyWsNewClient(c)

SpecLazy == Init /\ [][NextLazy]_vars

(* C15. While ready is false every POST /gaze and POST /calibrate of the   *)
(* lazy-loading application answers 503, runs no inference and leaves the  *)
(* calibration store as it was, and a stream connection attempt is closed  *)
(* and not registered; once load_modules has failed ready is false, and    *)
(* ready is only ever true after load_modules has succeeded.               *)
C15_NotReadyGate ==
    [][ /\ ~ready =>
              /\ \A s \in Sessions : \A f \in LazyFrames :
                    LazyGaze(f, s) =>
                        /\ resp'.status = 503 /\ resp'.raw = NoReading
                        /\ store' = store
              /\ \A s \in Sessions : \A f \in LazyFrames : \A l \in Labels :
                    LazyCalibrate(f, l, s) =>
                        /\ resp'.status = 503 /\ resp'.raw = NoReading
                        /\ store' = store /\ lastSet' = lastSet
              /\ \A c \in LazyConns : \A sid \in Sessions :
                    LazyWsConnect(c, sid) =>
                        /\ websocket_sessions' = websocket_sessions
                        /\ lazy_pc'.ws[c] = "refused"
        /\ lazy_pc'.loader = "failed" => ~ready'
        /\ ready' => lazy_pc'.loader = "loaded"
      ]_vars

(* Loading has failed and a request was answered 503 *)
C15_Witness ==
    /\ lazy_pc.loader = "failed" /\ ~ready /\ ~loading
    /\ resp.op = "lazy POST /gaze" /\ resp.status = 503

-----------------------------------------------------------------------------
(* The frame queue (queue_processor.py): threads calling submit_frame and  *)
(* the worker thread of frame_processor                                    *)

(* a < b for two queued tuples (-priority, timestamp, request): "lt",      *)
(* "ge", or "err" when the first two components tie and the requests       *)
(* differ, for FrameRequest defines no order (TypeError)                   *)
TupleLess(a, b) ==
    IF a.neg_priority # b.neg_priority
    THEN (IF a.neg_priority < b.neg_priority THEN "lt" ELSE "ge")
    ELSE IF a.timestamp # b.timestamp
    THEN (IF a.timestamp < b.timestamp THEN "lt" ELSE "ge")
    ELSE IF a.request = b.request THEN "ge"
    ELSE "err"

Swap(heap, i, j) == [heap EXCEPT ![i] = heap[j], ![j] = heap[i]]

(* heapq's sift of the item at pos towards the root (positions from 0, as  *)
(* in heapq; the list is left as it is when a comparison raises)           *)
RECURSIVE SiftDown(_, _, _)
SiftDown(heap, startpos, pos) ==
    IF pos <= startpos THEN [heap |-> heap, raised |-> FALSE]
    ELSE LET parentpos == (pos - 1) \div 2
             c == TupleLess(heap[pos + 1], heap[parentpos + 1])
         IN  IF c = "err" THEN [heap |-> heap, raised |-> TRUE]
             ELSE IF c = "ge" THEN [heap |-> heap, raised |-> FALSE]
             ELSE SiftDown(Swap(heap, pos + 1, parentpos + 1), startpos, parentpos)

(* heapq's sift of the item at pos towards the leaves, then back up *)
RECURSIVE SiftUp(_, _, _)
SiftUp(heap, startpos, pos) ==
    IF pos >= Len(heap) \div 2 THEN SiftDown(heap, startpos, pos)
    ELSE LET left == 2 * pos + 1
             c == IF left + 1 < Len(heap)
                  THEN TupleLess(heap[left + 1], heap[left + 2]) ELSE "lt"
             childpos == IF c = "ge" THEN left + 1 ELSE left
         IN  IF c = "err" THEN [heap |-> heap, raised |-> TRUE]
             ELSE SiftUp(Swap(heap, childpos + 1, pos + 1), startpos, childpos)

(* PriorityQueue._put: heappush *)
HeapPush(heap, item) == SiftDown(Append(heap, item), 0, Len(heap))

(* PriorityQueue._get: heappop.  When a comparison raises the item that    *)
(* was at the root has already left the list and is returned to nobody.    *)
HeapPop(heap) ==
    LET lastelt == heap[Len(heap)]
        rest == SubSeq(heap, 1, Len(heap) - 1)
        sifted == SiftUp([rest EXCEPT ![1] = lastelt], 0, 0)
    IN  IF rest = <<>> THEN [item |-> lastelt, heap |-> rest, raised |-> FALSE]
        ELSE [item |-> heap[1], heap |-> sifted.heap, raised |-> sifted.raised]

(* PriorityQueue.put: there is room when maxsize is not reached *)
PutHasRoomAlways(heap) == TRUE

PutHasRoom(heap) == Len(heap) < max_queue_size

(* _worker_loop: the expiry test on a dequeued tuple *)
FrameExpiredAtLimit(timestamp, t) ==
    drop_old_frames /\ t - timestamp >= max_frame_age_ms

FrameExpired(timestamp, t) ==
    drop_old_frames /\ t - timestamp > max_frame_age_ms

Bump(st, name) == [st EXCEPT ![name] = @ + 1]

(* submit_frame up to its put: the request id and timestamp are taken,     *)
(* and qsize() is compared with max_queue_size                             *)
SubmitCall(t, frame_data, sid, priority) ==
    /\ q_sub[t].pc = "idle"
    /\ q_log.calls < MaxSubmits
    /\ q_log' = [q_log EXCEPT !.calls = @ + 1]
    /\ q_sub' = [q_sub EXCEPT ![t] =
                   [pc |-> IF drop_old_frames /\ Len(frame_queue) >= max_queue_size
                           THEN "drop" ELSE "put",
                    item |-> [Item(FrameRequest(frame_data, sid, now, priority))
                                EXCEPT !.late = q_log.lost > 0],
                    since |-> now]]
    /\ UNCHANGED <<now, frame_queue, stats, shutdown_event, q_worker, nonQVars>>

(* _drop_oldest_frame: nothing leaves the queue *)
SubmitDropOldest(t) ==
    /\ q_sub[t].pc = "drop"
    /\ stats' = IF frame_queue # <<>> THEN Bump(stats, "frames_dropped") ELSE stats
    /\ q_sub' = [q_sub EXCEPT ![t].pc = "put", ![t].since = now]
    /\ UNCHANGED <<now, frame_queue, shutdown_event, q_worker, q_log, nonQVars>>

(* frame_queue.put finds room: the tuple is pushed; a TypeError of the     *)
(* push leaves submit_frame                                                *)
SubmitPut(t) ==
    /\ q_sub[t].pc = "put"
    /\ PutHasRoom(frame_queue)
    /\ LET pushed == HeapPush(frame_queue, q_sub[t].item)
       IN  /\ frame_queue' = pushed.heap
           /\ q_sub' = [q_sub EXCEPT ![t] =
                          IF pushed.raised THEN [pc |-> "idle", item |-> NoItem, since |-> 0]
                          ELSE [pc |-> "count", item |-> NoItem, since |-> 0]]
           /\ q_log' = IF pushed.raised THEN [q_log EXCEPT !.raised = @ + 1] ELSE q_log
    /\ UNCHANGED <<now, stats, shutdown_event, q_worker, nonQVars>>

(* after the put: frames_received, and the request id is returned *)
SubmitCount(t) ==
    /\ q_sub[t].pc = "count"
    /\ stats' = Bump(stats, "frames_received")
    /\ q_sub' = [q_sub EXCEPT ![t] = [pc |-> "idle", item |-> NoItem, since |-> 0]]
    /\ q_log' = [q_log EXCEPT !.accepted = @ + 1]
    /\ UNCHANGED <<now, frame_queue, shutdown_event, q_worker, nonQVars>>

(* frame_queue.put found no room for its whole timeout: queue.Full,        *)
(* frames_dropped, and None is returned                                    *)
SubmitFull(t) ==
    /\ q_sub[t].pc = "put"
    /\ ~PutHasRoom(frame_queue)
    /\ now - q_sub[t].since >= PutTimeoutMs
    /\ stats' = Bump(stats, "frames_dropped")
    /\ q_sub' = [q_sub EXCEPT ![t] = [pc |-> "idle", item |-> NoItem, since |-> 0]]
    /\ q_log' = [q_log EXCEPT !.rejected = @ + 1]
    /\ UNCHANGED <<now, frame_queue, shutdown_event, q_worker, nonQVars>>

(* _worker_loop: the loop condition *)
WorkerCheck ==
    /\ q_worker.pc = "check"
    /\ q_worker' = [q_worker EXCEPT !.pc = IF shutdown_event THEN "dead" ELSE "get"]
    /\ UNCHANGED <<now, frame_queue, stats, shutdown_event, q_sub, q_log, nonQVars>>

(* frame_queue.get returns a tuple, or raises the TypeError of the pop     *)
(* (caught at the bottom of the loop); then the expiry test.  The age of   *)
(* the tuple and what became of it are logged, and so is a tuple that the  *)
(* pop took from the heap before it raised.                                *)
WorkerGet ==
    /\ q_worker.pc = "get"
    /\ frame_queue # <<>>
    /\ LET popped == HeapPop(frame_queue)
           old == now - popped.item.timestamp > max_frame_age_ms
           expired == FrameExpired(popped.item.timestamp, now)
           fate == (IF old THEN "old_" ELSE "young_")
                   \o (IF expired THEN "expired" ELSE "handed")
       IN  /\ frame_queue' = popped.heap
           /\ IF popped.raised
              THEN /\ q_worker' = [q_worker EXCEPT !.pc = "check"]
                   /\ q_log' = [q_log EXCEPT
                                   !.lost = @ + 1,
                                   !.late_lost = IF popped.item.late THEN @ + 1 ELSE @]
                   /\ UNCHANGED stats
              ELSE /\ q_worker' = IF expired THEN [q_worker EXCEPT !.pc = "check"]
                                  ELSE [pc |-> "processing", item |-> popped.item]
                   /\ stats' = IF expired THEN Bump(stats, "frames_expired") ELSE stats
                   /\ q_log' = [q_log EXCEPT !.dequeued[fate] = @ + 1]
    /\ UNCHANGED <<now, shutdown_event, q_sub, nonQVars>>

(* frame_queue.get waits on an empty queue and raises queue.Empty (how     *)
(* long it waited is not measured)                                         *)
WorkerEmpty ==
    /\ q_worker.pc = "get"
    /\ frame_queue = <<>>
    /\ q_worker' = [q_worker EXCEPT !.pc = "check"]
    /\ UNCHANGED <<now, frame_queue, stats, shutdown_event, q_sub, q_log, nonQVars>>

(* _process_frame and _update_processing_stats, then task_done *)
WorkerProcess ==
    /\ q_worker.pc = "processing"
    /\ stats' = Bump(stats, "frames_processed")
    /\ q_worker' = [pc |-> "check", item |-> NoItem]
    /\ UNCHANGED <<now, frame_queue, shutdown_event, q_sub, q_log, nonQVars>>

(* stop: the event is set (the caller then waits for the worker) *)
QStop ==
    /\ ~shutdown_event
    /\ shutdown_event' = TRUE
    /\ UNCHANGED <<now, frame_queue, stats, q_sub, q_worker, q_log, nonQVars>>

(* start: worker_thread is None or not worker_thread.is_alive() *)
NoWorkerAliveAssumed(worker) == TRUE

NoWorkerAlive(worker) == worker.pc = "dead"

(* start: a new worker thread when there is none alive *)
QStart ==
    /\ NoWorkerAlive(q_worker)
    /\ shutdown_event' = FALSE
    /\ q_worker' = [pc |-> "check", item |-> NoItem]
    /\ UNCHANGED <<now, frame_queue, stats, q_sub, q_log, nonQVars>>

(* Time passes; a put that has waited its timeout out is settled first *)
TickQ ==
    /\ now + PutTimeoutMs <= StartTime + MaxQTicks * PutTimeoutMs
    /\ \A t \in Submitters : q_sub[t].pc = "put" => now - q_sub[t].since < PutTimeoutMs
    /\ now' = now + PutTimeoutMs
    /\ UNCHANGED <<qVars, nonQVars>>

NextQueue ==
    \/ \E t \in Submitters, a \in Submissions : SubmitCall(t, a[1], a[2], a[3])
    \/ \E t \in Submitters : SubmitDropOldest(t)
    \/ \E t \in Submitters : SubmitPut(t)
    \/ \E t \in Submitters : SubmitCount(t)
    \/ \E t \in Submitters : SubmitFull(t)
    \/ WorkerCheck
    \/ WorkerGet
    \/ WorkerEmpty
    \/ WorkerProcess
    \/ QStop
    \/ QStart
    \/ TickQ

SpecQueue == Init /\ [][NextQueue]_vars

(* stop and start around a worker that has requests to take: one thread    *)
(* submits, one thread calls stop and start, and the worker thread, like   *)
(* every running thread, keeps being scheduled                             *)
StopSubmission == <<"jpeg1", "A", 0>>

NextStop ==
    \/ SubmitCall(1, StopSubmission[1], StopSubmission[2], StopSubmission[3])
    \/ SubmitPut(1)
    \/ SubmitCount(1)
    \/ WorkerCheck
    \/ WorkerGet
    \/ WorkerEmpty
    \/ WorkerProcess
    \/ QStop
    \/ QStart

SpecStop ==
    /\ Init /\ [][NextStop]_vars
    /\ WF_vars(WorkerCheck) /\ WF_vars(WorkerGet) /\ WF_vars(WorkerEmpty)
    /\ WF_vars(WorkerProcess)

-----------------------------------------------------------------------------
(* Claims about the frame queue, checked under SpecQueue *)

(* C5. In every reachable state, however the concurrent submit_frame calls *)
(* and the worker loop interleave, the frame queue holds at most           *)
(* max_queue_size requests.                                                *)
C5_QueueBounded == Len(frame_queue) <= max_queue_size

(* The queue is full while one submit_frame call waits in put and another  *)
(* is under way                                                            *)
C5_Witness ==
    /\ Len(frame_queue) = max_queue_size
    /\ \E t \in Submitters : q_sub[t].pc = "put"
    /\ \E t \in Submitters : q_sub[t].pc \in {"drop", "count"}

(* C6. Every submit_frame call, accepted or rejected, adds exactly 1 to    *)
(* frames_received and every rejected call adds exactly 1 to               *)
(* frames_dropped: once the calls made have returned, with no dequeue in   *)
(* between, frames_received is the number of calls and frames_dropped the  *)
(* number of rejected calls.                                               *)
C6_RejectedCounted ==
    ( /\ \A t \in Submitters : q_sub[t].pc = "idle"
      /\ q_log.dequeued = NoneDequeued /\ q_log.lost = 0 /\ q_log.raised = 0 )
    => /\ stats.frames_received = q_log.calls
       /\ stats.frames_dropped = q_log.rejected

(* C7. A tuple whose age when the worker dequeues it is above              *)
(* max_frame_age_ms adds 1 to frames_expired and is neither handed to      *)
(* _process_frame nor counted in frames_processed; a tuple that is not     *)
(* older than max_frame_age_ms is handed to _process_frame, counted in     *)
(* frames_processed when that returns, and not counted as expired.         *)
C7_ExpiryAtDequeue ==
    /\ q_log.dequeued.old_handed = 0
    /\ q_log.dequeued.young_expired = 0
    /\ stats.frames_expired = q_log.dequeued.old_expired
    /\ stats.frames_processed + (IF q_worker.pc = "processing" THEN 1 ELSE 0)
          = q_log.dequeued.young_handed

(* An old tuple was expired, and the worker holds one just at the limit *)
C7_Witness ==
    /\ q_log.dequeued.old_expired > 0
    /\ stats.frames_processed > 0
    /\ q_worker.pc = "processing"
    /\ now - q_worker.item.timestamp = max_frame_age_ms

(* C16. An exception in the worker loop does not end the worker (it ends   *)
(* only when stop has set the event), and no frame that submit_frame took  *)
(* after such an exception is lost by the worker: each one it dequeues is  *)
(* handed to _process_frame or counted as expired.                         *)
C16_WorkerSurvives ==
    /\ q_worker.pc = "dead" => shutdown_event
    /\ q_log.late_lost = 0

(* The order of the queue: higher priority first, then earlier timestamp *)
ComesBefore(a, b) ==
    \/ a.neg_priority < b.neg_priority
    \/ a.neg_priority = b.neg_priority /\ a.timestamp < b.timestamp

(* C22. submit_frame accepts a request whatever its priority and timestamp *)
(* are, also when they equal those of a queued request (its put never      *)
(* raises), and the tuple the worker takes from the queue is one that no   *)
(* queued tuple comes before: the highest priority, and the earliest       *)
(* timestamp among those.                                                  *)
C22_PriorityOrder ==
    [][ /\ q_log'.raised = q_log.raised
        /\ Len(frame_queue') < Len(frame_queue) =>
              \A i \in 1..Len(frame_queue) :
                 ~ComesBefore(frame_queue[i], frame_queue[1]) ]_vars

(* C25. In every reachable state, however the submit_frame calls and the   *)
(* worker thread interleave, frames_processed + frames_expired is at most  *)
(* frames_received.                                                        *)
C25_ReceivedFirst ==
    stats.frames_processed + stats.frames_expired <= stats.frames_received

(* C27. The request ids that submit_frame returns are unique: once the     *)
(* calls made have returned, none of them by an exception, no two of the   *)
(* requests they queued have the same id.                                  *)
C27_UniqueIds ==
    ( /\ \A t \in Submitters : q_sub[t].pc = "idle"
      /\ q_log.raised = 0 )
    => \A i, j \in 1..Len(frame_queue) :
          i # j => frame_queue[i].request.id # frame_queue[j].request.id

-----------------------------------------------------------------------------
(* Claims about the focus analysis of the per-session stream, checked      *)
(* under SpecGws                                                           *)

(* C19. Focus-loss detection fires: when a frame of an active session is   *)
(* processed and answered with a gaze message, its focus score is below 20 *)
(* and more than focus_loss_timeout has passed since the session's last    *)
(* on-screen frame, then the message reports focus_loss_detected, the      *)
(* session's focus_loss_count has grown by one, and the status is          *)
(* focus_lost when more than notification_cooldown has passed since the    *)
(* last notification.                                                      *)
C19_FocusLossFires ==
    [][ \A s \in Sessions :
          LET session == active_connections[s]
              fa == gws_out'.focus_analysis
          IN  ( /\ gws_frames' = gws_frames + 1
                /\ resp'.op = "/gaze/ws:gaze" /\ resp'.sid = s
                /\ session.present /\ session.is_active
                /\ fa.focus_score < FocusLossBelow * One
                /\ now - session.last_gaze_time > focus_loss_timeout )
              => /\ fa.focus_loss_detected
                 /\ fa.focus_loss_count = session.focus_loss_count + 1
                 /\ now - session.last_notification_time > notification_cooldown
                       => fa.status = "focus_lost" ]_vars

(* A long run of frames on the per-session stream: two clients of session  *)
(* A, and up to MaxFocusFrames frame messages.  The first FreeFrames       *)
(* frames are any of FocusFrames (looking at the centre, at h = 0.3, at    *)
(* the edge of the screen, far off screen, and no face); from then on      *)
(* every third frame looks far off screen and the others at the centre.    *)
FocusFrames == {FrameCentre, FrameRight, FrameWaver, FrameFar, FrameNoFace}

FocusFrameAt(k) ==
    IF k <= FreeFrames THEN FocusFrames
    ELSE IF k % 3 = 0 THEN {FrameFar} ELSE {FrameCentre}

FocusMessage(c, frame, sent, alerted) ==
    /\ gws_pc[c] = "open" /\ gws_alive[c]
    /\ gws_frames < MaxFocusFrames
    /\ frame \in FocusFrameAt(gws_frames + 1)
    /\ UNCHANGED <<now, store, lastSet, gws_sid, nonGwsVars>>
    /\ GwsFrame(c, frame, sent, alerted)

NextFocus ==
    \/ \E c \in FocusConns, sent \in BOOLEAN : GwsConnect(c, "A", sent)
    \/ \E c \in FocusConns : GwsClientGone(c)
    \/ \E c \in FocusConns : GwsHandlerExit(c)
    \/ \E c \in FocusConns, f \in FocusFrames, sent \in BOOLEAN, alerted \in BOOLEAN :
          FocusMessage(c, f, sent, alerted)

SpecFocus == Init /\ [][NextFocus]_vars

(* The last HistoryCap values of a sequence, in their order *)
MostRecent(seq) ==
    IF Len(seq) <= HistoryCap THEN seq
    ELSE SubSeq(seq, Len(seq) - HistoryCap + 1, Len(seq))

(* C20. The attention_history of every session holds at most 30 values,    *)
(* the most recent attention values in arrival order: a frame processed    *)
(* for a registered session appends its attention value and, when that     *)
(* makes 31 values, drops the oldest; a frame for a session that is not    *)
(* registered, or one without a reading, changes no history; and a step    *)
(* that is not a frame leaves each history as it was or empty (a new or a  *)
(* removed session).                                                       *)
C20_BoundedHistory ==
    [][ /\ \A x \in Sessions :
              Len(active_connections'[x].attention_history) <= HistoryCap
        /\ IF gws_frames' = gws_frames + 1
           THEN LET s == resp'.sid
                    g == resp'.raw
                    session == active_connections[s]
                IN  /\ \A x \in Sessions \ {s} :
                          active_connections'[x] = active_connections[x]
                    /\ IF g.error = "" /\ session.present
                       THEN active_connections'[s].present =>
                               active_connections'[s].attention_history =
                                  MostRecent(Append(session.attention_history,
                                                    g.attention))
                       ELSE active_connections'[s] = session
           ELSE \A x \in Sessions :
                   active_connections'[x].attention_history
                      \in {active_connections[x].attention_history, <<>>} ]_vars

(* The 31st value has arrived and the oldest one has been dropped: after   *)
(* 31 frames the history holds the attention values of frames 2 to 31,     *)
(* which are not all the same.                                             *)
C20_Witness ==
    /\ gws_frames = HistoryCap + 1
    /\ resp.op = "/gaze/ws:gaze" /\ resp.sid = "A"
    /\ active_connections["A"].present
    /\ gws_out.focus_analysis.attention_history_length = HistoryCap
    /\ active_connections["A"].attention_history =
          [i \in 1..HistoryCap |->
             InferGazeOptimized(IF i + 1 <= FreeFrames THEN FrameFar
                                ELSE CHOOSE f \in FocusFrameAt(i + 1) : TRUE).attention]
    /\ InferGazeOptimized(FrameFar).attention # InferGazeOptimized(FrameCentre).attention

(* C21. The focus score reported for a frame is in [0, 100] and equals     *)
(* (40 if on_screen else 0) + 40 * attention + (20 if |h| < 0.3 and        *)
(* |v| < 0.3 else 0), capped at 100; the status reported is distracted     *)
(* when the score is below 30, wavering when it is in [30, 60) and focused *)
(* otherwise, unless it is focus_lost.  (Scores are in 1/400 of a point.)  *)
C21_FocusScore ==
    (resp.op = "/gaze/ws:gaze" /\ gws_out.type = "gaze"
       /\ gws_out.focus_analysis.status # "unknown") =>
        LET g == resp.raw
            fa == gws_out.focus_analysis
            sum == (IF g.on_screen THEN 40 * One ELSE 0) + 40 * g.attention
                   + (IF Abs(g.h) * 10 < 3 * One /\ Abs(g.v) * 10 < 3 * One
                      THEN 20 * One ELSE 0)
        IN  /\ fa.focus_score >= 0 /\ fa.focus_score <= 100 * One
            /\ fa.focus_score = IF sum > 100 * One THEN 100 * One ELSE sum
            /\ fa.status # "focus_lost" =>
                  fa.status = IF fa.focus_score < 30 * One THEN "distracted"
                              ELSE IF fa.focus_score < 60 * One THEN "wavering"
                              ELSE "focused"

(* A frame at the edge of the screen has been scored in the wavering band, *)
(* after one at h = 0.3 exactly, which earns no centre bonus               *)
C21_Witness ==
    /\ resp.op = "/gaze/ws:gaze" /\ gws_out.type = "gaze"
    /\ resp.raw.on_screen
    /\ gws_out.focus_analysis.status = "wavering"
    /\ gws_out.focus_analysis.focus_score = 58 * One
    /\ active_connections[resp.sid].present
    /\ active_connections[resp.sid].attention_history =
          <<InferGazeOptimized(FrameRight).attention, resp.raw.attention>>

(* C30. After disconnect(session_id) the manager holds no state for the    *)
(* session: when a connection's handler ends, its session id is in neither *)
(* active_connections nor gaze_cache.                                      *)
C30_NothingKept ==
    [][ \A c \in GwsConns :
          (gws_pc[c] = "open" /\ gws_pc'[c] = "closed") =>
              /\ ~active_connections'[gws_sid[c]].present
              /\ ~gaze_cache'[gws_sid[c]].present ]_vars

(* C26. When two connections of the per-session stream are open with the  *)
(* same session id, the end of one of them (its handler's disconnect)      *)
(* leaves the registry entry that the other, still open, connection is     *)
(* using as it was.                                                        *)
C26_OtherConnectionKept ==
    [][ \A c, d \in FocusConns :
          LET sid == gws_sid[d] IN
          ( /\ c # d /\ gws_sid[c] = sid
            /\ gws_pc[c] = "open" /\ gws_pc'[c] = "closed"
            /\ gws_pc[d] = "open" /\ gws_alive[d]
            /\ active_connections[sid].present
            /\ active_connections[sid].websocket = d )
          => active_connections'[sid] = active_connections[sid] ]_vars

-----------------------------------------------------------------------------
(* The landmark provider (gaze_optimized.py get_face_mesh, the same code   *)
(* in gaze_tolerant.py): threads of the executor calling get_face_mesh     *)

(* the test made again once the lock is held *)
InnerCheckSkipped(instance) == TRUE

InnerCheck(instance) == instance = 0

(* get_face_mesh: the first test of _face_mesh_instance, without the lock *)
MeshCall(t) ==
    /\ mesh_pc[t] = "idle"
    /\ mesh_log.calls < MaxMeshCalls
    /\ mesh_log' = [mesh_log EXCEPT !.calls = @ + 1]
    /\ mesh_pc' = [mesh_pc EXCEPT ![t] = IF face_mesh_instance = 0 THEN "lock"
                                         ELSE "return"]
    /\ UNCHANGED <<face_mesh_instance, face_mesh_lock, mesh_ret, nonMeshVars>>

(* with _face_mesh_lock: the lock is taken when it is free, then the       *)
(* second test                                                             *)
MeshAcquire(t) ==
    /\ mesh_pc[t] = "lock"
    /\ face_mesh_lock = 0
    /\ face_mesh_lock' = t
    /\ mesh_pc' = [mesh_pc EXCEPT ![t] = IF InnerCheck(face_mesh_instance)
                                         THEN "construct" ELSE "release"]
    /\ UNCHANGED <<face_mesh_instance, mesh_ret, mesh_log, nonMeshVars>>

(* FaceMesh(...) is constructed and assigned; when the constructor raises  *)
(* the with statement releases the lock and the exception leaves the call  *)
MeshConstruct(t, ok) ==
    /\ mesh_pc[t] = "construct"
    /\ IF ok
       THEN /\ face_mesh_instance' = mesh_log.built + 1
            /\ mesh_log' = [mesh_log EXCEPT !.built = @ + 1]
            /\ mesh_pc' = [mesh_pc EXCEPT ![t] = "release"]
            /\ UNCHANGED face_mesh_lock
       ELSE /\ face_mesh_lock' = 0
            /\ mesh_pc' = [mesh_pc EXCEPT ![t] = "idle"]
            /\ UNCHANGED <<face_mesh_instance, mesh_log>>
    /\ UNCHANGED <<mesh_ret, nonMeshVars>>

(* the end of the with block *)
MeshRelease(t) ==
    /\ mesh_pc[t] = "release"
    /\ face_mesh_lock' = 0
    /\ mesh_pc' = [mesh_pc EXCEPT ![t] = "return"]
    /\ UNCHANGED <<face_mesh_instance, mesh_ret, mesh_log, nonMeshVars>>

(* return _face_mesh_instance *)
MeshReturn(t) ==
    /\ mesh_pc[t] = "return"
    /\ mesh_ret' = [mesh_ret EXCEPT ![t] = face_mesh_instance]
    /\ mesh_pc' = [mesh_pc EXCEPT ![t] = "idle"]
    /\ UNCHANGED <<face_mesh_instance, face_mesh_lock, mesh_log, nonMeshVars>>

NextMesh ==
    \/ \E t \in MeshCallers : MeshCall(t)
    \/ \E t \in MeshCallers : MeshAcquire(t)
    \/ \E t \in MeshCallers, ok \in BOOLEAN : MeshConstruct(t, ok)
    \/ \E t \in MeshCallers : MeshRelease(t)
    \/ \E t \in MeshCallers : MeshReturn(t)

SpecMesh == Init /\ [][NextMesh]_vars

=============================================================================
